------------------------- MODULE ConversationProofs -------------------------
(***************************************************************************)
(* Proofs about Conversation, for any messages, texts and sizes.           *)
(*                                                                         *)
(* Two facts about the table carry them: the local edge of a row is the    *)
(* edge to the row of the message it replies to (Edges), and while a       *)
(* handler reads, the ids below that of its message are not given to other *)
(* messages (IdsKept).                                                     *)
(***************************************************************************)
EXTENDS Conversation, SetLemmas, SequenceTheorems, TLAPS

-----------------------------------------------------------------------------
(* The inductive invariant of the table.                                   *)

RowTypes ==
    /\ stored \in Nat
    /\ DOMAIN rows \subseteq 1 .. stored
    /\ \A i \in DOMAIN rows : rows[i] \in Row

OneRowPerNumber ==
    \A i, j \in DOMAIN rows : rows[i].number = rows[j].number => i = j

\* EdgesAgree without Lookup's choice.
Edges ==
    \A i \in DOMAIN rows :
        /\ rows[i].parent = 0 => \A j \in DOMAIN rows : rows[j].number # rows[i].reply
        /\ rows[i].parent # 0 => /\ rows[i].parent \in DOMAIN rows
                                 /\ rows[rows[i].parent].number = rows[i].reply

TableInv == RowTypes /\ OneRowPerNumber /\ Edges

-----------------------------------------------------------------------------
(* Lemmas on the operators.                                                *)

\* Numbers of messages are positive, and a reply names a smaller one.
LEMMA PostTypes ==
    ASSUME NEW post \in Posts
    PROVE  /\ post.number \in Numbers /\ post.number \in Nat \ {0}
           /\ post.sender \in {"user", "bot"} /\ post.text \in Texts
           /\ post.reply \in Nat /\ post.reply < post.number
  BY ConversationAssumption DEF ConversationAssumption, Numbers

LEMMA NumbersArePositive == \A n \in Numbers : n \in Nat \ {0}
  BY ConversationAssumption DEF ConversationAssumption, Numbers

\* Lookup finds the row of a number if there is one.
LEMMA LookupFinds ==
    ASSUME OneRowPerNumber, NEW n
    PROVE  /\ (\A j \in DOMAIN rows : rows[j].number # n) => Lookup(n) = 0
           /\ \A j \in DOMAIN rows : rows[j].number = n => Lookup(n) = j
<1>1. CASE RowsOf(n) = {}
  BY <1>1 DEF Lookup, RowsOf
<1>2. CASE RowsOf(n) # {}
  <2>1. Lookup(n) \in RowsOf(n)
    BY <1>2 DEF Lookup
  <2> QED
    BY <1>2, <2>1 DEF RowsOf, OneRowPerNumber
<1> QED
  BY <1>1, <1>2

LEMMA EdgesAreLookups ==
    ASSUME RowTypes, OneRowPerNumber, Edges
    PROVE  EdgesAgree
  BY LookupFinds DEF Edges, EdgesAgree

\* A row that insert writes has its type and the edge of its message.
LEMMA RowForTypes ==
    ASSUME RowTypes, OneRowPerNumber, NEW post \in Posts
    PROVE  LET row == RowFor(post) IN
           /\ row = [number |-> post.number, sender |-> post.sender,
                     reply |-> post.reply, text |-> post.text,
                     parent |-> row.parent, created |-> stored + 1]
           /\ row.parent \in Nat
           /\ row.parent = 0 => \A j \in DOMAIN rows : rows[j].number # post.reply
           /\ row.parent # 0 => /\ row.parent \in DOMAIN rows
                                /\ rows[row.parent].number = post.reply
<1> DEFINE parent == Lookup(post.reply)
<1>1. RowFor(post) = [number |-> post.number, sender |-> post.sender,
                      reply |-> post.reply, text |-> post.text,
                      parent |-> parent, created |-> stored + 1]
  BY DEF RowFor
<1>2. CASE \A j \in DOMAIN rows : rows[j].number # post.reply
  <2>1. parent = 0
    BY <1>2, LookupFinds
  <2> QED
    BY <1>1, <1>2, <2>1
<1>3. CASE \E j \in DOMAIN rows : rows[j].number = post.reply
  <2>1. PICK j \in DOMAIN rows : rows[j].number = post.reply
    BY <1>3
  <2>2. parent = j
    BY <2>1, LookupFinds
  <2>3. j \in Nat \ {0}
    BY DEF RowTypes
  <2> QED
    BY <1>1, <2>1, <2>2, <2>3
<1> QED
  BY <1>2, <1>3

-----------------------------------------------------------------------------
(* The steps of the table.                                                 *)

LEMMA InitTable == Init => TableInv
<1> SUFFICES ASSUME Init PROVE TableInv
  OBVIOUS
<1>1. rows = <<>> /\ stored = 0
  BY DEF Init
<1>2. DOMAIN rows = {}
  BY <1>1
<1> QED
  BY <1>1, <1>2 DEF TableInv, RowTypes, OneRowPerNumber, Edges

LEMMA StoreNewTable ==
    ASSUME TableInv, NEW post \in Posts, StoreNew(post), stored' = stored + 1
    PROVE  TableInv'
<1> USE DEF TableInv
<1>1. PICK id \in 1 .. stored + 1 :
        /\ NextId(id)
        /\ rows' = [i \in DOMAIN rows \cup {id} |->
                      IF i = id THEN RowFor(post) ELSE Adopted(rows[i], post.number, id)]
  BY DEF StoreNew
<1> DEFINE row == RowFor(post)
<1>2. /\ row.number = post.number /\ row.reply = post.reply
      /\ row \in [number : Numbers, sender : {"user", "bot"}, reply : Nat,
                  text : Texts, parent : Nat, created : 1 .. stored + 1]
  BY PostTypes, RowForTypes DEF RowTypes
<1>3. /\ DOMAIN rows' = DOMAIN rows \cup {id} /\ id \notin DOMAIN rows /\ id # 0
      /\ rows'[id] = row
      /\ \A i \in DOMAIN rows : rows'[i] = Adopted(rows[i], post.number, id)
  <2>1. id \notin DOMAIN rows
    BY <1>1 DEF NextId
  <2> QED
    BY <1>1, <2>1
<1>4. \A i \in DOMAIN rows :
        /\ rows'[i].number = rows[i].number /\ rows'[i].reply = rows[i].reply
        /\ rows'[i].parent = IF rows[i].reply = post.number /\ rows[i].parent = 0
                             THEN id ELSE rows[i].parent
        /\ rows'[i] \in [number : Numbers, sender : {"user", "bot"}, reply : Nat,
                         text : Texts, parent : Nat, created : 1 .. stored + 1]
  <2> SUFFICES ASSUME NEW i \in DOMAIN rows
               PROVE  /\ rows'[i].number = rows[i].number
                      /\ rows'[i].reply = rows[i].reply
                      /\ rows'[i].parent = IF rows[i].reply = post.number /\ rows[i].parent = 0
                                           THEN id ELSE rows[i].parent
                      /\ rows'[i] \in [number : Numbers, sender : {"user", "bot"},
                                       reply : Nat, text : Texts, parent : Nat,
                                       created : 1 .. stored + 1]
    OBVIOUS
  <2>1. rows[i] \in Row
    BY DEF RowTypes
  <2> QED
    BY <1>3, <2>1 DEF Adopted, Row, RowTypes
<1>5. \A i \in DOMAIN rows : rows[i].number # post.number
  BY DEF StoreNew, RowsOf
<1>6. RowTypes'
  <2>1. stored' \in Nat /\ DOMAIN rows' \subseteq 1 .. stored'
    BY <1>1, <1>3 DEF RowTypes
  <2>2. \A i \in DOMAIN rows' : rows'[i] \in Row'
    BY <1>2, <1>3, <1>4 DEF Row
  <2> QED
    BY <2>1, <2>2 DEF RowTypes
<1>7. OneRowPerNumber'
  BY <1>2, <1>3, <1>4, <1>5 DEF OneRowPerNumber
<1>8. Edges'
  <2> SUFFICES ASSUME NEW i \in DOMAIN rows'
               PROVE  /\ rows'[i].parent = 0 =>
                            \A j \in DOMAIN rows' : rows'[j].number # rows'[i].reply
                      /\ rows'[i].parent # 0 =>
                            /\ rows'[i].parent \in DOMAIN rows'
                            /\ rows'[rows'[i].parent].number = rows'[i].reply
    BY DEF Edges
  <2>1. CASE i = id
    <3>1. post.number # post.reply
      BY PostTypes
    <3>2. /\ row.parent = 0 => \A j \in DOMAIN rows : rows[j].number # post.reply
          /\ row.parent # 0 => /\ row.parent \in DOMAIN rows
                               /\ rows[row.parent].number = post.reply
      BY RowForTypes
    <3> QED
      BY <1>2, <1>3, <1>4, <2>1, <3>1, <3>2
  <2>2. CASE i \in DOMAIN rows
    BY <1>2, <1>3, <1>4, <1>5, <2>2 DEF Edges
  <2> QED
    BY <1>3, <2>1, <2>2
<1> QED
  BY <1>6, <1>7, <1>8

LEMMA StoreOverTable ==
    ASSUME TableInv, NEW post \in Posts, StoreOver(post), stored' = stored + 1
    PROVE  TableInv'
<1> USE DEF TableInv
<1>1. PICK k \in DOMAIN rows : /\ rows[k].number = post.number
                               /\ rows' = [rows EXCEPT ![k] = RowFor(post)]
  BY DEF StoreOver, RowsOf
<1> DEFINE row == RowFor(post)
<1>2. /\ row.number = post.number /\ row.reply = post.reply
      /\ row \in [number : Numbers, sender : {"user", "bot"}, reply : Nat,
                  text : Texts, parent : Nat, created : 1 .. stored + 1]
  BY PostTypes, RowForTypes DEF RowTypes
<1>3. /\ DOMAIN rows' = DOMAIN rows /\ rows'[k] = row
      /\ \A i \in DOMAIN rows : i # k => rows'[i] = rows[i]
      /\ \A i \in DOMAIN rows : rows'[i].number = rows[i].number
  BY <1>1, <1>2
<1>4. RowTypes'
  <2>1. stored' \in Nat /\ DOMAIN rows' \subseteq 1 .. stored'
    BY <1>3 DEF RowTypes
  <2>2. \A i \in DOMAIN rows' : rows'[i] \in Row'
    BY <1>2, <1>3 DEF Row, RowTypes
  <2> QED
    BY <2>1, <2>2 DEF RowTypes
<1>5. OneRowPerNumber'
  BY <1>3 DEF OneRowPerNumber
<1>6. Edges'
  <2>1. /\ row.parent = 0 => \A j \in DOMAIN rows : rows[j].number # post.reply
        /\ row.parent # 0 => /\ row.parent \in DOMAIN rows
                             /\ rows[row.parent].number = post.reply
    BY RowForTypes
  <2> QED
    BY <1>2, <1>3, <2>1 DEF Edges
<1> QED
  BY <1>4, <1>5, <1>6

LEMMA UpdateTable ==
    ASSUME TableInv, NEW number \in Numbers, NEW text \in {"progress", "final"},
           UpdateBotText(number, text)
    PROVE  TableInv'
<1> USE DEF TableInv
<1>1. PICK k \in DOMAIN rows : rows' = [rows EXCEPT ![k].text = text]
  BY DEF UpdateBotText, RowsOf
<1>2. stored' = stored /\ text \in Texts
  BY ConversationAssumption DEF UpdateBotText, ConversationAssumption
<1>3. /\ DOMAIN rows' = DOMAIN rows
      /\ \A i \in DOMAIN rows : /\ rows'[i].number = rows[i].number
                                /\ rows'[i].reply = rows[i].reply
                                /\ rows'[i].parent = rows[i].parent
                                /\ rows'[i] \in Row
  BY <1>1, <1>2 DEF RowTypes, Row
<1>4. RowTypes'
  BY <1>2, <1>3 DEF RowTypes, Row
<1>5. OneRowPerNumber' /\ Edges'
  BY <1>3 DEF OneRowPerNumber, Edges, RowTypes
<1> QED
  BY <1>4, <1>5

LEMMA PruneTable ==
    ASSUME TableInv, NEW before \in 1 .. stored + 1, Prune(before)
    PROVE  TableInv'
<1> USE DEF TableInv
<1> DEFINE old == {i \in DOMAIN rows : rows[i].created < before}
<1>1. /\ rows' = [i \in DOMAIN rows \ old |->
                    IF rows[i].parent \in old THEN [rows[i] EXCEPT !.parent = 0]
                    ELSE rows[i]]
      /\ stored' = stored
  BY DEF Prune
<1>2. DOMAIN rows' = DOMAIN rows \ old
  BY <1>1
<1>3. \A i \in DOMAIN rows' :
        /\ rows'[i].number = rows[i].number /\ rows'[i].reply = rows[i].reply
        /\ rows'[i].parent = IF rows[i].parent \in old THEN 0 ELSE rows[i].parent
        /\ rows'[i] \in Row
  <2> SUFFICES ASSUME NEW i \in DOMAIN rows'
               PROVE  /\ rows'[i].number = rows[i].number /\ rows'[i].reply = rows[i].reply
                      /\ rows'[i].parent = IF rows[i].parent \in old THEN 0
                                           ELSE rows[i].parent
                      /\ rows'[i] \in Row
    OBVIOUS
  <2>1. rows[i] \in Row
    BY <1>2 DEF RowTypes
  <2>2. rows'[i] = IF rows[i].parent \in old THEN [rows[i] EXCEPT !.parent = 0] ELSE rows[i]
    BY <1>1, <1>2
  <2> QED
    BY <2>1, <2>2 DEF Row
<1>4. RowTypes'
  BY <1>1, <1>2, <1>3 DEF RowTypes, Row
<1>5. OneRowPerNumber'
  BY <1>2, <1>3 DEF OneRowPerNumber
<1>6. Edges'
  <2> SUFFICES ASSUME NEW i \in DOMAIN rows'
               PROVE  /\ rows'[i].parent = 0 =>
                            \A j \in DOMAIN rows' : rows'[j].number # rows'[i].reply
                      /\ rows'[i].parent # 0 =>
                            /\ rows'[i].parent \in DOMAIN rows'
                            /\ rows'[rows'[i].parent].number = rows'[i].reply
    BY DEF Edges
  <2>1. CASE rows[i].parent \in old
    <3>1. rows[i].parent # 0
      BY <2>1 DEF RowTypes
    <3>2. rows[rows[i].parent].number = rows[i].reply
      BY <1>2, <3>1 DEF Edges
    <3> QED
      BY <1>2, <1>3, <2>1, <3>2 DEF OneRowPerNumber
  <2>2. CASE rows[i].parent \notin old
    BY <1>2, <1>3, <2>2 DEF Edges
  <2> QED
    BY <2>1, <2>2
<1> QED
  BY <1>4, <1>5, <1>6

LEMMA NextTable ==
    ASSUME TableInv, [Next]_vars
    PROVE  TableInv'
<1>1. ASSUME NEW post \in Posts, Store(post)
      PROVE  TableInv'
  BY <1>1, StoreNewTable, StoreOverTable DEF Store
<1>2. ASSUME NEW number \in Numbers, NEW text \in {"progress", "final"},
             UpdateBotText(number, text)
      PROVE  TableInv'
  BY <1>2, UpdateTable
<1>3. ASSUME NEW before \in 1 .. stored + 1, Prune(before)
      PROVE  TableInv'
  BY <1>3, PruneTable
<1>4. ASSUME UNCHANGED storeVars
      PROVE  TableInv'
  BY <1>4 DEF storeVars, TableInv, RowTypes, OneRowPerNumber, Edges, Row
<1> QED
  BY <1>1, <1>2, <1>3, <1>4
     DEF Next, vars, Begin, Walk, ReadRecent, ReadFails, Assemble

LEMMA TableAlways == Spec => []TableInv
<1>1. Init => TableInv
  BY InitTable
<1>2. TableInv /\ [Next]_vars => TableInv'
  BY NextTable
<1> QED
  BY <1>1, <1>2, PTL DEF Spec

\* The local edges agree with Telegram's replies, in whatever order messages are
\* stored, stored over and pruned (insert, Prune).
THEOREM EdgesAlwaysAgree == Spec => []EdgesAgree
<1>1. TableInv => EdgesAgree
  BY EdgesAreLookups DEF TableInv
<1> QED
  BY <1>1, TableAlways, PTL

-----------------------------------------------------------------------------
(* The walk of a handler.                                                  *)

\* While a handler reads, the row of its message stays, and what it has read of
\* the thread below that row's id fits together, up to the row to read next.
MessageStays == pc # "idle" => current.id \in DOMAIN rows

WalkFits ==
    pc # "idle" /\ mode = "group" =>
        /\ walked \in Seq(Message)
        /\ \A n \in 2 .. Len(walked) :
              walked[n].id < current.id => walked[n].number = walked[n - 1].reply
        /\ walked # <<>> /\ cursor < current.id /\ cursor \in DOMAIN rows =>
              rows[cursor].number = walked[Len(walked)].reply

ReaderInv == MessageStays /\ WalkFits

\* What the writes may do while a handler reads: no row below the id of its
\* message comes or changes its number, and its message stays.
IdsKept ==
    /\ MessageStays /\ pc # "idle" => current.id \in DOMAIN rows'
    /\ \A i \in DOMAIN rows' : i \in DOMAIN rows => rows'[i].number = rows[i].number
    /\ \A i \in DOMAIN rows' : i \notin DOMAIN rows => \A j \in DOMAIN rows : j < i

LEMMA StoreKeepsIds ==
    ASSUME TableInv, NEW post \in Posts, Store(post)
    PROVE  IdsKept
<1> USE DEF TableInv
<1>1. ASSUME StoreNew(post)
      PROVE  IdsKept
  <2>1. PICK id \in 1 .. stored + 1 :
          /\ NextId(id)
          /\ rows' = [i \in DOMAIN rows \cup {id} |->
                        IF i = id THEN RowFor(post) ELSE Adopted(rows[i], post.number, id)]
    BY <1>1 DEF StoreNew
  <2>2. \A i \in DOMAIN rows : i # id
    BY <2>1 DEF NextId, RowTypes
  <2>3. \A i \in DOMAIN rows : rows'[i].number = rows[i].number
    <3> SUFFICES ASSUME NEW i \in DOMAIN rows
                 PROVE  rows'[i].number = rows[i].number
      OBVIOUS
    <3>1. rows'[i] = Adopted(rows[i], post.number, id) /\ rows[i] \in Row
      BY <2>1, <2>2 DEF RowTypes
    <3> QED
      BY <3>1 DEF Adopted, Row
  <2>4. DOMAIN rows' = DOMAIN rows \cup {id}
    BY <2>1
  <2> QED
    BY <2>1, <2>3, <2>4 DEF IdsKept, MessageStays, NextId
<1>2. ASSUME StoreOver(post)
      PROVE  IdsKept
  <2>1. PICK k \in DOMAIN rows : /\ rows[k].number = post.number
                                 /\ rows' = [rows EXCEPT ![k] = RowFor(post)]
    BY <1>2 DEF StoreOver, RowsOf
  <2>2. RowFor(post).number = post.number
    BY RowForTypes
  <2> QED
    BY <2>1, <2>2 DEF IdsKept, MessageStays
<1> QED
  BY <1>1, <1>2 DEF Store

LEMMA UpdateKeepsIds ==
    ASSUME TableInv, NEW number \in Numbers, NEW text \in {"progress", "final"},
           UpdateBotText(number, text)
    PROVE  IdsKept
<1>1. PICK k \in DOMAIN rows : rows' = [rows EXCEPT ![k].text = text]
  BY DEF UpdateBotText, RowsOf
<1>2. DOMAIN rows' = DOMAIN rows /\ \A i \in DOMAIN rows : rows'[i].number = rows[i].number
  BY <1>1 DEF TableInv, RowTypes, Row
<1> QED
  BY <1>2 DEF IdsKept, MessageStays

\* Only here is Expired needed: a message that is being answered is not old.
LEMMA PruneKeepsIds ==
    ASSUME TableInv, NEW before \in 1 .. stored + 1, Prune(before)
    PROVE  IdsKept
<1> DEFINE old == {i \in DOMAIN rows : rows[i].created < before}
<1>1. /\ rows' = [i \in DOMAIN rows \ old |->
                    IF rows[i].parent \in old THEN [rows[i] EXCEPT !.parent = 0]
                    ELSE rows[i]]
      /\ pc # "idle" => before <= rows[current.id].created
  BY DEF Prune, Expired
<1>2. DOMAIN rows' = DOMAIN rows \ old
  BY <1>1
<1>3. \A i \in DOMAIN rows' : rows'[i].number = rows[i].number
  <2> SUFFICES ASSUME NEW i \in DOMAIN rows'
               PROVE  rows'[i].number = rows[i].number
    OBVIOUS
  <2>1. rows[i] \in Row
    BY <1>2 DEF TableInv, RowTypes
  <2>2. rows'[i] = IF rows[i].parent \in old THEN [rows[i] EXCEPT !.parent = 0] ELSE rows[i]
    BY <1>1, <1>2
  <2> QED
    BY <2>1, <2>2 DEF Row
<1>4. MessageStays /\ pc # "idle" => current.id \in DOMAIN rows'
  <2> SUFFICES ASSUME MessageStays, pc # "idle"
               PROVE  current.id \notin old
    BY <1>2 DEF MessageStays
  <2>1. rows[current.id] \in Row
    BY DEF MessageStays, TableInv, RowTypes
  <2> QED
    BY <1>1, <2>1 DEF Row, TableInv, RowTypes
<1> QED
  BY <1>2, <1>3, <1>4 DEF IdsKept

\* What a handler has read stays in order under the writes.
LEMMA WritesKeepReader ==
    ASSUME TableInv, ReaderInv, IdsKept, UNCHANGED handlerVars
    PROVE  ReaderInv'
<1>1. MessageStays'
  BY DEF ReaderInv, MessageStays, IdsKept, handlerVars
<1>2. WalkFits'
  <2> SUFFICES ASSUME pc # "idle", mode = "group"
               PROVE  WalkFits'
    BY DEF WalkFits, handlerVars
  <2>1. current.id \in DOMAIN rows
    BY DEF ReaderInv, MessageStays
  <2>2. walked # <<>> /\ cursor < current.id /\ cursor \in DOMAIN rows' =>
           rows'[cursor].number = walked[Len(walked)].reply
    <3> SUFFICES ASSUME walked # <<>>, cursor < current.id, cursor \in DOMAIN rows'
                 PROVE  rows'[cursor].number = walked[Len(walked)].reply
      OBVIOUS
    <3>1. cursor \in DOMAIN rows
      <4> SUFFICES ASSUME cursor \notin DOMAIN rows
                   PROVE  FALSE
        OBVIOUS
      <4>1. current.id < cursor
        BY <2>1 DEF IdsKept
      <4>2. current.id \in Nat
        BY <2>1 DEF TableInv, RowTypes
      <4> QED
        BY <4>1, <4>2
    <3> QED
      BY <3>1 DEF IdsKept, ReaderInv, WalkFits
  <2> QED
    BY <2>2 DEF ReaderInv, WalkFits, ContextIsOneThread, Message, handlerVars
<1> QED
  BY <1>1, <1>2 DEF ReaderInv

\* What is read is a message with the id it was asked for.
LEMMA ReadTypes ==
    ASSUME RowTypes, NEW i \in DOMAIN rows
    PROVE  /\ Read(i) \in Message /\ Read(i).id = i
           /\ Read(i).number = rows[i].number /\ Read(i).reply = rows[i].reply
<1>1. rows[i] \in Row /\ i \in Nat
  BY DEF RowTypes
<1>2. Size[rows[i].text] \in Nat /\ rows[i].number \in Nat
  BY <1>1, NumbersArePositive, ConversationAssumption DEF Row, ConversationAssumption
<1> QED
  BY <1>1, <1>2 DEF Read, Message, Row

LEMMA BeginFits ==
    ASSUME TableInv, NEW i \in DOMAIN rows, NEW as \in {"group", "private"}, Begin(i, as)
    PROVE  ReaderInv'
<1>1. current'.id = i /\ i \in DOMAIN rows' /\ walked' = <<>>
  BY ReadTypes DEF Begin, storeVars, TableInv
<1> QED
  BY <1>1 DEF ReaderInv, MessageStays, WalkFits

\* A step of the walk appends the row that the last one read replies to, and
\* goes on to the row that this one replies to.
LEMMA WalkStepFits ==
    ASSUME TableInv, ReaderInv, Walk
    PROVE  ReaderInv'
<1> USE DEF TableInv
<1>1. /\ pc = "reading" /\ mode = "group" /\ UNCHANGED <<rows, mode, current>>
      /\ pc' \in {"reading", "assembling"} /\ current.id \in DOMAIN rows
  BY DEF Walk, storeVars, ReaderInv, MessageStays
<1>2. /\ walked \in Seq(Message)
      /\ \A n \in 2 .. Len(walked) :
            walked[n].id < current.id => walked[n].number = walked[n - 1].reply
      /\ walked # <<>> /\ cursor < current.id /\ cursor \in DOMAIN rows =>
            rows[cursor].number = walked[Len(walked)].reply
  BY <1>1 DEF ReaderInv, WalkFits
<1>3. MessageStays'
  BY <1>1 DEF MessageStays
<1>4. CASE UNCHANGED <<walked, cursor>>
  BY <1>1, <1>2, <1>3, <1>4 DEF ReaderInv, WalkFits, Message
<1>5. CASE /\ cursor \in DOMAIN rows
           /\ walked' = Append(walked, Read(cursor))
           /\ cursor' = rows[cursor].parent
  <2> DEFINE last == Len(walked) + 1
  <2>1. /\ Read(cursor) \in Message /\ Read(cursor).id = cursor
        /\ Read(cursor).number = rows[cursor].number
        /\ Read(cursor).reply = rows[cursor].reply
    BY <1>5, ReadTypes
  <2>2. /\ walked' \in Seq(Message) /\ Len(walked') = last /\ last \in Nat \ {0}
        /\ walked'[last] = Read(cursor)
        /\ \A n \in 1 .. Len(walked) : walked'[n] = walked[n]
    BY <1>2, <1>5, <2>1
  <2>3. \A n \in 2 .. Len(walked') :
           walked'[n].id < current.id => walked'[n].number = walked'[n - 1].reply
    <3> SUFFICES ASSUME NEW n \in 2 .. last, walked'[n].id < current.id
                 PROVE  walked'[n].number = walked'[n - 1].reply
      BY <2>2
    <3>1. CASE n = last
      <4>1. walked # <<>> /\ n - 1 = Len(walked) /\ Len(walked) \in 1 .. Len(walked)
        BY <1>2, <3>1
      <4> QED
        BY <1>2, <1>5, <2>1, <2>2, <3>1, <4>1
    <3>2. CASE n # last
      <4>1. n \in 2 .. Len(walked) /\ n - 1 \in 1 .. Len(walked) /\ n \in 1 .. Len(walked)
        BY <1>2, <3>2
      <4> QED
        BY <1>2, <2>2, <4>1
    <3> QED
      BY <3>1, <3>2
  <2>4. cursor' \in DOMAIN rows => rows[cursor'].number = rows[cursor].reply
    <3>1. cursor' \in DOMAIN rows => cursor' # 0
      BY DEF RowTypes
    <3> QED
      BY <1>5, <3>1 DEF Edges
  <2>5. walked'[Len(walked')].reply = rows[cursor].reply
    BY <2>1, <2>2
  <2> QED
    BY <1>1, <1>3, <2>2, <2>3, <2>4, <2>5 DEF ReaderInv, WalkFits
<1> QED
  BY <1>4, <1>5 DEF Walk

LEMMA NextReader ==
    ASSUME TableInv, ReaderInv, [Next]_vars
    PROVE  ReaderInv'
<1>1. ASSUME NEW post \in Posts, Store(post)
      PROVE  ReaderInv'
  BY <1>1, StoreKeepsIds, WritesKeepReader DEF Store
<1>2. ASSUME NEW number \in Numbers, NEW text \in {"progress", "final"},
             UpdateBotText(number, text)
      PROVE  ReaderInv'
  BY <1>2, UpdateKeepsIds, WritesKeepReader DEF UpdateBotText
<1>3. ASSUME NEW before \in 1 .. stored + 1, Prune(before)
      PROVE  ReaderInv'
  BY <1>3, PruneKeepsIds, WritesKeepReader DEF Prune
<1>4. ASSUME NEW i \in DOMAIN rows, NEW as \in {"group", "private"}, Begin(i, as)
      PROVE  ReaderInv'
  BY <1>4, BeginFits
<1>5. ASSUME Walk
      PROVE  ReaderInv'
  BY <1>5, WalkStepFits
<1>6. ASSUME ReadRecent
      PROVE  ReaderInv'
  BY <1>6 DEF ReadRecent, storeVars, ReaderInv, MessageStays, WalkFits
<1>7. ASSUME ReadFails
      PROVE  ReaderInv'
  BY <1>7 DEF ReadFails, storeVars, ReaderInv, MessageStays, WalkFits
<1>8. ASSUME Assemble
      PROVE  ReaderInv'
  BY <1>8 DEF Assemble, storeVars, ReaderInv, MessageStays, WalkFits
<1>9. ASSUME UNCHANGED vars
      PROVE  ReaderInv'
  BY <1>9 DEF vars, storeVars, handlerVars, ReaderInv, MessageStays, WalkFits, Message
<1> QED
  BY <1>1, <1>2, <1>3, <1>4, <1>5, <1>6, <1>7, <1>8, <1>9 DEF Next

\* The rows from which a group's context is built are one thread, whatever is
\* stored, stored over, edited or pruned between their reads (BuildReplyChain
\* and the cut on ids in runAgentReply).
THEOREM ContextIsOfOneThread == Spec => []ContextIsOneThread
<1>1. Init => ReaderInv
  BY DEF Init, ReaderInv, MessageStays, WalkFits
<1>2. TableInv /\ ReaderInv /\ [Next]_vars => ReaderInv'
  BY NextReader
<1>3. ReaderInv => ContextIsOneThread
  BY DEF ReaderInv, WalkFits, ContextIsOneThread
<1> QED
  BY <1>1, <1>2, <1>3, TableAlways, PTL DEF Spec

-----------------------------------------------------------------------------
(* Parts of sequences, and sizes of sequences of messages.                 *)

LEMMA PartIs ==
    ASSUME NEW S, NEW s \in Seq(S), NEW m \in Nat \ {0}, NEW n \in Nat,
           m <= n + 1, n <= Len(s)
    PROVE  /\ SubSeq(s, m, n) \in Seq(S) /\ Len(SubSeq(s, m, n)) = n - m + 1
           /\ \A i \in 1 .. n - m + 1 : SubSeq(s, m, n)[i] = s[m + i - 1]
<1>1. \A i \in m .. n : s[i] \in S
  OBVIOUS
<1>2. Len(SubSeq(s, m, n)) = IF m <= n THEN n - m + 1 ELSE 0
  BY <1>1, SubSeqProperties
<1>3. m <= n \/ n - m + 1 = 0
  OBVIOUS
<1> QED
  BY <1>1, <1>2, <1>3, SubSeqProperties

LEMMA WithHead ==
    ASSUME NEW S, NEW x \in S, NEW t \in Seq(S)
    PROVE  /\ <<x>> \o t \in Seq(S) /\ Len(<<x>> \o t) = Len(t) + 1
           /\ (<<x>> \o t)[1] = x
           /\ \A k \in 2 .. Len(t) + 1 : (<<x>> \o t)[k] = t[k - 1]
<1>1. <<x>> \in Seq(S) /\ Len(<<x>>) = 1 /\ <<x>>[1] = x /\ Len(t) \in Nat
  OBVIOUS
<1>2. Len(<<x>> \o t) = 1 + Len(t) /\ <<x>> \o t \in Seq(S)
  BY <1>1, ConcatProperties
<1>3. \A i \in 1 .. 1 + Len(t) : (<<x>> \o t)[i] = IF i <= 1 THEN x ELSE t[i - 1]
  BY <1>1, ConcatProperties
<1> QED
  BY <1>1, <1>2, <1>3

LEMMA ConstantTypes ==
    /\ Depth \in Nat \ {0, 1} /\ Chars \in Nat \ {0} /\ RecentLimit \in Nat \ {0}
    /\ \A text \in Texts : Size[text] \in Nat
    /\ "final" \in Texts
  BY ConversationAssumption DEF ConversationAssumption

Sizes(s) == [n \in DOMAIN s |-> s[n].size]

LEMMA TotalIs ==
    ASSUME NEW s
    PROVE  TotalSize(s) = SumOf(Sizes(s), DOMAIN s)
  BY DEF TotalSize, Sizes, SumOf

LEMMA SizesAre ==
    ASSUME NEW s \in Seq(Message)
    PROVE  /\ DOMAIN s = 1 .. Len(s) /\ Len(s) \in Nat /\ IsFiniteSet(1 .. Len(s))
           /\ \A n \in 1 .. Len(s) : s[n] \in Message /\ Sizes(s)[n] = s[n].size
                                     /\ Sizes(s)[n] \in Nat
<1>1. DOMAIN s = 1 .. Len(s) /\ Len(s) \in Nat /\ \A n \in 1 .. Len(s) : s[n] \in Message
  OBVIOUS
<1>2. IsFiniteSet(1 .. Len(s))
  BY <1>1, FS_Interval
<1>3. \A n \in 1 .. Len(s) : Sizes(s)[n] = s[n].size
  BY <1>1 DEF Sizes
<1> QED
  BY <1>1, <1>2, <1>3 DEF Message

LEMMA TotalInNat ==
    ASSUME NEW s \in Seq(Message)
    PROVE  TotalSize(s) \in Nat
<1> DEFINE f == Sizes(s)
<1>1. TotalSize(s) = SumOf(f, 1 .. Len(s))
  BY SizesAre, TotalIs
<1>2. IsFiniteSet(1 .. Len(s)) /\ \A n \in 1 .. Len(s) : f[n] \in Nat
  BY SizesAre
<1> HIDE DEF f
<1> QED
  BY <1>1, <1>2, SumInNat

LEMMA TotalOfNone == TotalSize(<<>>) = 0
<1>1. DOMAIN <<>> = {}
  <2>1. 1 .. 0 = {}
    OBVIOUS
  <2> QED
    BY <2>1
<1> QED
  BY <1>1, TotalIs, SumOfNone

\* The size of a sequence is that of its head and of the rest.
LEMMA TotalOfMore ==
    ASSUME NEW m \in Message, NEW t \in Seq(Message)
    PROVE  TotalSize(<<m>> \o t) = m.size + TotalSize(t)
<1> DEFINE s == <<m>> \o t
           n == Len(t)
           f == Sizes(s)
           g == Sizes(t)
<1>1. /\ s \in Seq(Message) /\ Len(s) = n + 1 /\ n \in Nat /\ s[1] = m
      /\ \A i \in 1 .. n : s[i + 1] = t[i]
  OBVIOUS
<1> HIDE DEF s
<1>2. TotalSize(s) = SumOf(f, 1 .. n + 1) /\ TotalSize(t) = SumOf(g, 1 .. n)
  BY <1>1, SizesAre, TotalIs
<1>3. IsFiniteSet(1 .. n + 1) /\ \A i \in 1 .. n + 1 : f[i] \in Nat /\ f[i] = s[i].size
  BY <1>1, SizesAre
<1>4. \A i \in 1 .. n : g[i] = t[i].size
  BY <1>1, SizesAre
<1>5. \A i \in 1 .. n : f[i + 1] \in Nat /\ g[i] = f[i + 1]
  <2>1. \A i \in 1 .. n : i + 1 \in 1 .. n + 1
    BY <1>1
  <2> QED
    BY <1>1, <1>3, <1>4, <2>1
<1>6. 1 \in 1 .. n + 1 /\ (1 .. n + 1) \ {1} = 2 .. n + 1
  BY <1>1
<1>7. f[1] = m.size
  BY <1>1, <1>3, <1>6
<1>8. SumOf(f, 1 .. n + 1) = f[1] + SumOf(f, (1 .. n + 1) \ {1})
  <2> DEFINE all == 1 .. n + 1
  <2>1. IsFiniteSet(all) /\ (\A i \in all : f[i] \in Nat) /\ 1 \in all
    BY <1>3, <1>6
  <2> HIDE DEF all, f
  <2>2. SumOf(f, all) = f[1] + SumOf(f, all \ {1})
    BY <2>1, SumWith
  <2> QED
    BY <2>2 DEF all
<1>9. SumOf(f, 2 .. n + 1) = SumOf(g, 1 .. n)
  <2> HIDE DEF f, g, n
  <2> QED
    BY <1>1, <1>5, SumMoved
<1> QED
  BY <1>2, <1>6, <1>7, <1>8, <1>9 DEF s

LEMMA TotalOfOne ==
    ASSUME NEW m \in Message
    PROVE  TotalSize(<<m>>) = m.size
<1>1. <<>> \in Seq(Message) /\ <<m>> \o <<>> = <<m>> /\ m.size \in Nat
  BY DEF Message
<1>2. TotalSize(<<m>> \o <<>>) = m.size + TotalSize(<<>>)
  BY <1>1, TotalOfMore
<1> QED
  BY <1>1, <1>2, TotalOfNone

LEMMA TotalOfTwo ==
    ASSUME NEW m \in Message, NEW n \in Message
    PROVE  TotalSize(<<m, n>>) = m.size + n.size
<1> DEFINE s == <<m>> \o <<n>>
           pair == <<m, n>>
<1>1. <<n>> \in Seq(Message) /\ Len(<<n>>) = 1 /\ <<n>>[1] = n
  OBVIOUS
<1>2. s \in Seq(Message) /\ Len(s) = 2 /\ s[1] = m /\ s[2] = n
  BY <1>1, WithHead
<1>3. pair \in Seq(Message) /\ Len(pair) = 2 /\ pair[1] = m /\ pair[2] = n
  OBVIOUS
<1>4. s = pair
  <2> HIDE DEF s, pair
  <2> QED
    BY <1>2, <1>3, SeqEqual
<1> QED
  BY <1>1, <1>4, TotalOfMore, TotalOfOne

-----------------------------------------------------------------------------
(* Cutting down.                                                           *)

LEMMA TruncatedIs ==
    ASSUME NEW m \in Message, NEW limit \in Nat
    PROVE  /\ Truncated(m, limit) \in Message
           /\ Truncated(m, limit).id = m.id /\ Truncated(m, limit).text = m.text
           /\ Truncated(m, limit).size <= limit
<1>1. Max({limit, 0}) = limit
  BY MaxOfTwo
<1>2. m.size \in Nat
  BY DEF Message
<1>3. Min({m.size, limit}) \in Nat /\ Min({m.size, limit}) <= limit
  BY <1>2, MinOfTwo
<1> DEFINE size == Min({m.size, limit})
<1>4. Truncated(m, limit) = [m EXCEPT !.size = size]
  BY <1>1 DEF Truncated
<1> HIDE DEF size
<1>5. size \in Nat /\ size <= limit
  BY <1>3 DEF size
<1> QED
  BY <1>4, <1>5 DEF Message

LEMMA LastOfIs ==
    ASSUME NEW S, NEW s \in Seq(S), NEW n \in Nat, n <= Len(s)
    PROVE  /\ LastOf(s, n) \in Seq(S) /\ Len(LastOf(s, n)) = n
           /\ \A k \in 1 .. n : LastOf(s, n)[k] = s[Len(s) - n + k]
<1> DEFINE len == Len(s)
           first == len - n + 1
<1>1. len \in Nat /\ len <= len
  OBVIOUS
<1>2. first \in Nat \ {0} /\ first <= len + 1 /\ len - first + 1 = n
  BY <1>1
<1>3. Max({1, first}) = first
  BY <1>2, MaxOfTwo
<1>4. LastOf(s, n) = SubSeq(s, first, len)
  BY <1>3 DEF LastOf
<1>5. \A k \in 1 .. n : first + k - 1 = len - n + k
  BY <1>1
<1> DEFINE t == SubSeq(s, first, len)
<1> HIDE DEF first
<1>6. /\ t \in Seq(S) /\ Len(t) = len - first + 1
      /\ \A k \in 1 .. len - first + 1 : t[k] = s[first + k - 1]
  BY <1>1, <1>2, PartIs
<1> HIDE DEF len, t
<1>7. /\ t \in Seq(S) /\ Len(t) = n
      /\ \A k \in 1 .. n : t[k] = s[len - n + k]
  BY <1>2, <1>5, <1>6
<1> QED
  BY <1>4, <1>7 DEF len, t

\* t is the end of s, some of its messages cut down.
EndOf(t, s) ==
    /\ t \in Seq(Message) /\ Len(t) <= Len(s)
    /\ \A k \in 1 .. Len(t) : t[k].id = s[Len(s) - Len(t) + k].id

\* What boundRecent keeps is the end of the messages, within the budget.
LEMMA FittingTailIs ==
    ASSUME NEW s \in Seq(Message), NEW budget \in Nat
    PROVE  /\ EndOf(FittingTail(s, budget), s)
           /\ s # <<>> => FittingTail(s, budget) # <<>>
           /\ TotalSize(FittingTail(s, budget)) <= budget
<1>1. CASE s = <<>>
  <2>1. FittingTail(s, budget) = <<>>
    BY <1>1 DEF FittingTail
  <2>2. EndOf(<<>>, <<>>)
    BY DEF EndOf
  <2> QED
    BY <1>1, <2>1, <2>2, TotalOfNone
<1>2. CASE s # <<>>
  <2> DEFINE n == Len(s)
             last == Truncated(s[n], budget)
             cut == Append(Front(s), last)
             starts == {i \in 1 .. n : TotalSize(SubSeq(cut, i, n)) <= budget}
             first == Min(starts)
  <2>1. n \in Nat /\ n >= 1 /\ s[n] \in Message
    BY <1>2
  <2>2. last \in Message /\ last.id = s[n].id /\ last.size <= budget
    BY <2>1, TruncatedIs
  <2>3. /\ Front(s) \in Seq(Message) /\ Len(Front(s)) = n - 1
        /\ \A i \in 1 .. n - 1 : Front(s)[i] = s[i]
    <3>1. n - 1 \in Nat /\ (n - 1) - 1 + 1 = n - 1 /\ \A i \in 1 .. n - 1 : 1 + i - 1 = i
      BY <2>1
    <3>2. Front(s) = SubSeq(s, 1, n - 1)
      BY DEF Front
    <3>3. /\ SubSeq(s, 1, n - 1) \in Seq(Message)
          /\ Len(SubSeq(s, 1, n - 1)) = (n - 1) - 1 + 1
          /\ \A i \in 1 .. (n - 1) - 1 + 1 : SubSeq(s, 1, n - 1)[i] = s[1 + i - 1]
      BY <2>1, <3>1, PartIs
    <3> QED
      BY <3>1, <3>2, <3>3
  <2> HIDE DEF last
  <2>4. /\ cut \in Seq(Message) /\ Len(cut) = n /\ cut[n] = last
        /\ \A i \in 1 .. n - 1 : cut[i] = s[i]
    BY <2>1, <2>2, <2>3
  <2>5. \A i \in 1 .. n : cut[i].id = s[i].id
    BY <2>1, <2>2, <2>4
  <2> HIDE DEF cut
  <2>6. n \in starts
    <3>1. SubSeq(cut, n, n) = <<last>>
      <4> DEFINE one == SubSeq(cut, n, n)
      <4>1. one \in Seq(Message) /\ Len(one) = 1 /\ one[1] = last
        <5>1. n - n + 1 = 1 /\ n + 1 - 1 = n /\ n \in Nat \ {0} /\ n <= n + 1
          BY <2>1
        <5>2. /\ one \in Seq(Message) /\ Len(one) = n - n + 1
              /\ \A i \in 1 .. n - n + 1 : one[i] = cut[n + i - 1]
          BY <2>4, <5>1, PartIs
        <5> QED
          BY <2>4, <5>1, <5>2
      <4> HIDE DEF one
      <4>2. <<last>> \in Seq(Message) /\ Len(<<last>>) = 1 /\ <<last>>[1] = last
        BY <2>2
      <4>3. one = <<last>>
        BY <4>1, <4>2, SeqEqual
      <4> QED
        BY <4>3 DEF one
    <3>2. TotalSize(SubSeq(cut, n, n)) <= budget
      BY <2>2, <3>1, TotalOfOne
    <3> QED
      BY <2>1, <3>2
  <2>7. first \in starts
    <3> HIDE DEF starts
    <3>1. starts \in SUBSET Nat
      BY <2>1 DEF starts
    <3>2. PICK x \in starts : \A y \in starts : x <= y
      BY <2>6, <3>1, LeastOf
    <3> QED
      BY <3>2 DEF Min
  <2>8. first \in 1 .. n /\ TotalSize(SubSeq(cut, first, n)) <= budget
    BY <2>7
  <2>9. FittingTail(s, budget) = SubSeq(cut, first, n)
    BY <1>2 DEF FittingTail, cut, last, Last
  <2> HIDE DEF first
  <2> DEFINE t == SubSeq(cut, first, n)
  <2>10. /\ t \in Seq(Message) /\ Len(t) = n - first + 1
         /\ \A k \in 1 .. n - first + 1 : t[k] = cut[first + k - 1]
    BY <2>1, <2>4, <2>8
  <2> HIDE DEF t
  <2>11. EndOf(t, s)
    <3>1. Len(t) \in Nat /\ Len(t) <= n /\ Len(t) >= 1 /\ first = n - Len(t) + 1
      BY <2>1, <2>8, <2>10
    <3>2. ASSUME NEW k \in 1 .. Len(t) PROVE t[k].id = s[n - Len(t) + k].id
      <4>1. first + k - 1 = n - Len(t) + k /\ first + k - 1 \in 1 .. n
        BY <2>1, <2>8, <3>1
      <4>2. t[k] = cut[first + k - 1]
        BY <2>10
      <4> QED
        BY <2>5, <4>1, <4>2
    <3> QED
      BY <2>10, <3>1, <3>2 DEF EndOf
  <2>12. t # <<>>
    BY <2>1, <2>8, <2>10
  <2> QED
    BY <2>8, <2>9, <2>11, <2>12 DEF t
<1> QED
  BY <1>1, <1>2

-----------------------------------------------------------------------------
(* The chain that is kept of a thread.                                     *)

\* After its first message chain is the end of s, some messages cut down.
TailOf(chain, s) ==
    /\ chain \in Seq(Message) /\ Len(chain) >= 1 /\ Len(chain) <= Len(s)
    /\ \A k \in 2 .. Len(chain) : chain[k].id = s[Len(s) - Len(chain) + k].id
    /\ Len(s) >= 2 => Len(chain) >= 2

\* And the first is the one before those, or the first of all.
StartOf(chain, s) ==
    \/ chain[1].id = s[Len(s) - Len(chain) + 1].id
    \/ IsEvent(s[1]) /\ chain[1].id = s[1].id

LEMMA WithinDepthIs ==
    ASSUME NEW s \in Seq(Message), s # <<>>
    PROVE  LET chain == WithinDepth(s) IN
           /\ TailOf(chain, s) /\ StartOf(chain, s) /\ Len(chain) <= Depth
           /\ \E first \in DOMAIN s \cap {1, Len(s) - Depth + 1} : chain[1] = s[first]
<1> DEFINE n == Len(s)
<1>1. n \in Nat /\ n >= 1 /\ DOMAIN s = 1 .. n /\ Depth \in Nat /\ Depth >= 2
  BY ConstantTypes
<1>2. CASE n <= Depth
  <2>1. WithinDepth(s) = s
    BY <1>2 DEF WithinDepth
  <2>2. TailOf(s, s) /\ StartOf(s, s)
    BY <1>1 DEF TailOf, StartOf
  <2> QED
    BY <1>1, <1>2, <2>1, <2>2
<1>3. CASE n > Depth /\ IsEvent(s[1])
  <2> DEFINE t == LastOf(s, Depth - 1)
             chain == <<s[1]>> \o t
  <2>1. WithinDepth(s) = chain
    BY <1>1, <1>3 DEF WithinDepth
  <2>2. /\ t \in Seq(Message) /\ Len(t) = Depth - 1
        /\ \A k \in 1 .. Depth - 1 : t[k] = s[n - (Depth - 1) + k]
    <3>1. Depth - 1 \in Nat /\ Depth - 1 <= n
      BY <1>1, <1>3
    <3> QED
      BY <3>1, LastOfIs
  <2> HIDE DEF t
  <2>3. s[1] \in Message
    BY <1>1
  <2>4. /\ chain \in Seq(Message) /\ Len(chain) = Depth /\ chain[1] = s[1]
        /\ \A k \in 2 .. Depth : chain[k] = t[k - 1]
    BY <1>1, <2>2, <2>3
  <2>5. \A k \in 2 .. Depth : chain[k] = s[n - Depth + k]
    <3>1. ASSUME NEW k \in 2 .. Depth PROVE chain[k] = s[n - Depth + k]
      <4>1. k - 1 \in 1 .. Depth - 1 /\ n - (Depth - 1) + (k - 1) = n - Depth + k
        BY <1>1
      <4> QED
        BY <2>2, <2>4, <4>1
    <3> QED
      BY <3>1
  <2> HIDE DEF chain
  <2>6. TailOf(chain, s) /\ StartOf(chain, s)
    BY <1>1, <1>3, <2>4, <2>5 DEF TailOf, StartOf
  <2>7. 1 \in DOMAIN s \cap {1, Len(s) - Depth + 1}
    BY <1>1
  <2> QED
    BY <2>1, <2>4, <2>6, <2>7, <1>1
<1>4. CASE n > Depth /\ ~IsEvent(s[1])
  <2> DEFINE chain == LastOf(s, Depth)
  <2>1. WithinDepth(s) = chain
    BY <1>1, <1>4 DEF WithinDepth
  <2>2. /\ chain \in Seq(Message) /\ Len(chain) = Depth
        /\ \A k \in 1 .. Depth : chain[k] = s[n - Depth + k]
    <3>1. Depth <= n
      BY <1>1, <1>4
    <3> QED
      BY <1>1, <3>1, LastOfIs
  <2> HIDE DEF chain
  <2>3. TailOf(chain, s) /\ StartOf(chain, s)
    <3>1. \A k \in 2 .. Depth : k \in 1 .. Depth
      OBVIOUS
    <3>2. 1 \in 1 .. Depth
      BY <1>1
    <3> QED
      BY <1>1, <1>4, <2>2, <3>1, <3>2 DEF TailOf, StartOf
  <2>4. n - Depth + 1 \in DOMAIN s \cap {1, Len(s) - Depth + 1} /\ chain[1] = s[n - Depth + 1]
    BY <1>1, <1>4, <2>2
  <2> QED
    BY <2>1, <2>2, <2>3, <2>4, <1>1
<1> QED
  BY <1>1, <1>2, <1>3, <1>4

LEMMA HalfOfChars == Chars \div 2 \in Nat /\ Chars \div 2 <= Chars
  BY ConstantTypes

LEMMA PairIs ==
    ASSUME NEW s \in Seq(Message), Len(s) >= 2
    PROVE  /\ TailOf(Pair(s), s) /\ StartOf(Pair(s), s)
           /\ TotalSize(Pair(s)) <= Chars
<1> DEFINE n == Len(s)
           parent == Truncated(s[n - 1], Chars \div 2)
           last == Truncated(s[n], Chars - parent.size)
<1>1. n \in Nat /\ s[n - 1] \in Message /\ s[n] \in Message
  OBVIOUS
<1>2. parent \in Message /\ parent.id = s[n - 1].id /\ parent.size <= Chars \div 2
  BY <1>1, HalfOfChars, TruncatedIs
<1> HIDE DEF parent
<1>3. parent.size \in Nat /\ Chars \in Nat /\ Chars - parent.size \in Nat
  <2>1. parent.size \in Nat
    BY <1>2 DEF Message
  <2> QED
    BY <1>2, <2>1, HalfOfChars, ConstantTypes
<1>4. last \in Message /\ last.id = s[n].id /\ last.size <= Chars - parent.size
  BY <1>1, <1>3, TruncatedIs
<1> HIDE DEF last
<1>5. Pair(s) = <<parent, last>>
  BY DEF Pair, parent, last
<1>6. TotalSize(<<parent, last>>) = parent.size + last.size
  BY <1>2, <1>4, TotalOfTwo
<1>7. parent.size + last.size <= Chars
  <2>1. last.size \in Nat
    BY <1>4 DEF Message
  <2> QED
    BY <1>3, <1>4, <2>1
<1>8. TailOf(<<parent, last>>, s) /\ StartOf(<<parent, last>>, s)
  <2> DEFINE pair == <<parent, last>>
  <2>1. pair \in Seq(Message) /\ Len(pair) = 2 /\ pair[1] = parent /\ pair[2] = last
    BY <1>2, <1>4
  <2>2. n - 2 + 2 = n /\ n - 2 + 1 = n - 1
    BY <1>1
  <2> HIDE DEF pair
  <2>3. TailOf(pair, s) /\ StartOf(pair, s)
    BY <1>1, <1>2, <1>4, <2>1, <2>2 DEF TailOf, StartOf
  <2> QED
    BY <2>3 DEF pair
<1> QED
  BY <1>5, <1>6, <1>7, <1>8

LEMMA WithinBudgetIs ==
    ASSUME NEW s \in Seq(Message), s # <<>>
    PROVE  LET chain == WithinBudget(s) IN
           TailOf(chain, s) /\ StartOf(chain, s) /\ TotalSize(chain) <= Chars
<1> DEFINE n == Len(s)
           root == Truncated(s[1], Chars \div 2)
           rest == SubSeq(s, 2, n)
           tail == FittingTail(rest, Chars - root.size)
           keep == IF IsEvent(s[1]) THEN <<root>> \o tail ELSE FittingTail(s, Chars)
<1>1. n \in Nat /\ n >= 1 /\ s[1] \in Message /\ Chars \in Nat
  BY ConstantTypes
<1>2. WithinBudget(s) = IF TotalSize(s) <= Chars THEN s
                        ELSE IF Len(keep) < 2 /\ n >= 2 THEN Pair(s) ELSE keep
  BY DEF WithinBudget
<1>3. CASE TotalSize(s) <= Chars
  <2>1. TailOf(s, s) /\ StartOf(s, s)
    BY <1>1 DEF TailOf, StartOf
  <2> QED
    BY <1>2, <1>3, <2>1
<1>4. ASSUME IsEvent(s[1])
      PROVE  TailOf(keep, s) /\ StartOf(keep, s) /\ TotalSize(keep) <= Chars
  <2>1. root \in Message /\ root.id = s[1].id /\ root.size <= Chars \div 2
    BY <1>1, HalfOfChars, TruncatedIs
  <2> HIDE DEF root
  <2>2. root.size \in Nat /\ Chars - root.size \in Nat
    <3>1. root.size \in Nat
      BY <2>1 DEF Message
    <3> QED
      BY <1>1, <2>1, <3>1, HalfOfChars
  <2>3. /\ rest \in Seq(Message) /\ Len(rest) = n - 1
        /\ \A k \in 1 .. n - 1 : rest[k] = s[k + 1]
    <3>1. 2 <= n + 1 /\ n - 2 + 1 = n - 1 /\ \A k \in 1 .. n - 1 : 2 + k - 1 = k + 1
      BY <1>1
    <3>2. /\ rest \in Seq(Message) /\ Len(rest) = n - 2 + 1
          /\ \A k \in 1 .. n - 2 + 1 : rest[k] = s[2 + k - 1]
      BY <1>1, <3>1, PartIs
    <3> HIDE DEF rest
    <3> QED
      BY <3>1, <3>2
  <2> HIDE DEF rest
  <2>4. /\ EndOf(tail, rest) /\ TotalSize(tail) <= Chars - root.size
        /\ rest # <<>> => tail # <<>>
    BY <2>2, <2>3, FittingTailIs
  <2> HIDE DEF tail
  <2> DEFINE chain == <<root>> \o tail
  <2>5. /\ tail \in Seq(Message) /\ Len(tail) \in Nat /\ Len(tail) <= n - 1
        /\ n >= 2 => Len(tail) >= 1
    BY <1>1, <2>3, <2>4 DEF EndOf
  <2>6. /\ chain \in Seq(Message) /\ Len(chain) = Len(tail) + 1 /\ chain[1] = root
        /\ \A k \in 2 .. Len(tail) + 1 : chain[k] = tail[k - 1]
    BY <2>1, <2>5
  <2>7. \A k \in 2 .. Len(tail) + 1 : chain[k].id = s[n - (Len(tail) + 1) + k].id
    <3>1. ASSUME NEW k \in 2 .. Len(tail) + 1
          PROVE  chain[k].id = s[n - (Len(tail) + 1) + k].id
      <4> DEFINE l == (n - 1) - Len(tail) + (k - 1)
      <4>1. k - 1 \in 1 .. Len(tail) /\ l \in 1 .. n - 1 /\ l + 1 = n - (Len(tail) + 1) + k
        BY <1>1, <2>5
      <4>2. tail[k - 1].id = rest[l].id
        BY <2>3, <2>4, <4>1 DEF EndOf
      <4>3. rest[l] = s[l + 1]
        BY <2>3, <4>1
      <4> QED
        BY <2>6, <4>1, <4>2, <4>3
    <3> QED
      BY <3>1
  <2>8. TotalSize(chain) <= Chars
    <3>1. TotalSize(chain) = root.size + TotalSize(tail) /\ TotalSize(tail) \in Nat
      BY <2>1, <2>5, TotalOfMore, TotalInNat
    <3> QED
      BY <1>1, <2>2, <2>4, <3>1
  <2> HIDE DEF chain
  <2>9. TailOf(chain, s)
    BY <1>1, <2>5, <2>6, <2>7 DEF TailOf
  <2>10. StartOf(chain, s)
    BY <1>4, <2>1, <2>6 DEF StartOf
  <2>11. keep = chain
    BY <1>4 DEF chain
  <2> QED
    BY <2>8, <2>9, <2>10, <2>11
<1>5. ASSUME ~IsEvent(s[1])
      PROVE  /\ EndOf(keep, s) /\ Len(keep) >= 1 /\ TotalSize(keep) <= Chars
  <2>1. keep = FittingTail(s, Chars)
    BY <1>5
  <2> HIDE DEF keep
  <2>2. EndOf(keep, s) /\ keep # <<>> /\ TotalSize(keep) <= Chars
    BY <1>1, <2>1, FittingTailIs
  <2>3. keep \in Seq(Message)
    BY <2>2 DEF EndOf
  <2> QED
    BY <2>2, <2>3
<1> HIDE DEF keep
<1>6. CASE ~(TotalSize(s) <= Chars) /\ Len(keep) < 2 /\ n >= 2
  BY <1>2, <1>6, PairIs
<1>7. CASE ~(TotalSize(s) <= Chars) /\ ~(Len(keep) < 2 /\ n >= 2)
  <2>1. WithinBudget(s) = keep
    BY <1>2, <1>7
  <2>2. ASSUME EndOf(keep, s), Len(keep) >= 1 PROVE TailOf(keep, s) /\ StartOf(keep, s)
    <3>1. Len(keep) \in Nat
      BY <2>2 DEF EndOf
    <3>2. n >= 2 => Len(keep) >= 2
      BY <1>1, <1>7, <3>1
    <3>3. 1 \in 1 .. Len(keep) /\ \A k \in 2 .. Len(keep) : k \in 1 .. Len(keep)
      BY <2>2, <3>1
    <3> QED
      BY <2>2, <3>2, <3>3 DEF EndOf, TailOf, StartOf
  <2> QED
    BY <1>4, <1>5, <2>1, <2>2
<1> QED
  BY <1>3, <1>6, <1>7

\* What BuildReplyChain returns for a thread that was walked up to its end.
LEMMA ReplyChainIs ==
    ASSUME NEW thread \in Seq(Message), thread # <<>>, NEW chain,
           chain = WithinBudget(WithinDepth(thread))
    PROVE  /\ TailOf(chain, thread) /\ Len(chain) <= Depth /\ TotalSize(chain) <= Chars
           /\ \/ chain[1].id = thread[Len(thread) - Len(chain) + 1].id
              \/ \E first \in DOMAIN thread \cap {1, Len(thread) - Depth + 1} :
                    IsEvent(thread[first]) /\ chain[1].id = thread[first].id
<1> DEFINE short == WithinDepth(thread)
           n == Len(thread)
           s == Len(short)
           c == Len(chain)
<1>1. /\ TailOf(short, thread) /\ StartOf(short, thread) /\ s <= Depth
      /\ \E first \in DOMAIN thread \cap {1, n - Depth + 1} : short[1] = thread[first]
  BY WithinDepthIs
<1>2. chain = WithinBudget(short)
  OBVIOUS
<1> HIDE DEF short
<1>3. short \in Seq(Message) /\ s >= 1 /\ short # <<>>
  BY <1>1 DEF TailOf
<1>4. TailOf(chain, short) /\ StartOf(chain, short) /\ TotalSize(chain) <= Chars
  BY <1>2, <1>3, WithinBudgetIs
<1>5. /\ n \in Nat /\ s \in Nat /\ c \in Nat /\ Depth \in Nat /\ chain \in Seq(Message)
      /\ 1 <= c /\ c <= s /\ s <= n /\ s <= Depth /\ (n >= 2 => c >= 2)
      /\ DOMAIN thread = 1 .. n
  BY <1>1, <1>3, <1>4, ConstantTypes DEF TailOf
<1>6. ASSUME NEW k \in 1 .. c, k >= 2 \/ c < s
      PROVE  short[s - c + k].id = thread[n - c + k].id
  <2>1. s - c + k \in 2 .. s /\ n - s + (s - c + k) = n - c + k
    BY <1>5, <1>6
  <2> QED
    BY <1>1, <2>1 DEF TailOf
<1>7. \A k \in 2 .. c : chain[k].id = thread[n - c + k].id
  <2>1. ASSUME NEW k \in 2 .. c PROVE chain[k].id = thread[n - c + k].id
    <3>1. chain[k].id = short[s - c + k].id
      BY <1>4 DEF TailOf
    <3>2. k \in 1 .. c /\ k >= 2
      BY <1>5
    <3> QED
      BY <1>6, <3>1, <3>2
  <2> QED
    BY <2>1
<1>8. TailOf(chain, thread)
  BY <1>5, <1>7 DEF TailOf
<1>9. CASE IsEvent(short[1]) /\ chain[1].id = short[1].id
  BY <1>1, <1>4, <1>5, <1>8, <1>9
<1>10. CASE chain[1].id = short[s - c + 1].id
  <2>1. CASE c < s
    <3>1. 1 \in 1 .. c
      BY <1>5
    <3>2. chain[1].id = thread[n - c + 1].id
      BY <1>6, <1>10, <2>1, <3>1
    <3> QED
      BY <1>4, <1>5, <1>8, <3>2
  <2>2. CASE c = s
    <3>1. s - c + 1 = 1
      BY <1>5, <2>2
    <3>2. chain[1].id = short[1].id
      BY <1>10, <3>1
    <3>3. CASE short[1].id = thread[n - s + 1].id
      BY <1>4, <1>5, <1>8, <2>2, <3>2, <3>3
    <3>4. CASE IsEvent(thread[1]) /\ short[1].id = thread[1].id
      <4>1. 1 \in DOMAIN thread \cap {1, n - Depth + 1}
        BY <1>5
      <4> QED
        BY <1>4, <1>5, <1>8, <3>2, <3>4, <4>1
    <3> QED
      BY <1>1, <3>3, <3>4 DEF StartOf
  <2> QED
    BY <1>5, <2>1, <2>2
<1> QED
  BY <1>4, <1>9, <1>10 DEF StartOf

\* The walk the other way round.
LEMMA ThreadIs ==
    ASSUME walked \in Seq(Message), walked # <<>>
    PROVE  Reverse(walked) \in Seq(Message) /\ Reverse(walked) # <<>>
<1> DEFINE thread == Reverse(walked)
<1>1. thread = [k \in 1 .. Len(walked) |-> walked[Len(walked) - k + 1]]
  BY DEF Reverse
<1>2. Len(walked) \in Nat /\ Len(walked) >= 1
  OBVIOUS
<1>3. \A k \in 1 .. Len(walked) : Len(walked) - k + 1 \in 1 .. Len(walked)
  BY <1>2
<1>4. \A k \in 1 .. Len(walked) : walked[Len(walked) - k + 1] \in Message
  BY <1>3
<1>5. thread \in Seq(Message)
  BY <1>1, <1>2, <1>4
<1>6. Len(thread) = Len(walked)
  BY <1>1, <1>2
<1> QED
  BY <1>2, <1>5, <1>6

\* ChainBounded needs of the state only that messages were read.
LEMMA ReplyChainBounded ==
    ASSUME walked \in Seq(Message)
    PROVE  ChainBounded
<1> SUFFICES ASSUME walked # <<>>
             PROVE  ChainBounded
  BY DEF ChainBounded
<1> DEFINE thread == Reverse(walked)
           chain == ReplyChain
           n == Len(thread)
           c == Len(chain)
           ids == [k \in DOMAIN chain |-> chain[k].id]
           all == [k \in DOMAIN thread |-> thread[k].id]
<1>1. thread \in Seq(Message) /\ thread # <<>>
  BY ThreadIs
<1>2. chain = WithinBudget(WithinDepth(thread))
  BY DEF ReplyChain
<1> HIDE DEF chain, thread
<1>3. /\ TailOf(chain, thread) /\ c <= Depth /\ TotalSize(chain) <= Chars
      /\ \/ chain[1].id = thread[n - c + 1].id
         \/ \E first \in DOMAIN thread \cap {1, n - Depth + 1} :
               IsEvent(thread[first]) /\ chain[1].id = thread[first].id
  BY <1>1, <1>2, ReplyChainIs
<1>4. /\ chain \in Seq(Message) /\ n \in Nat /\ c \in Nat /\ 1 <= c /\ c <= n
      /\ DOMAIN chain = 1 .. c /\ DOMAIN thread = 1 .. n
      /\ \A k \in 2 .. c : chain[k].id = thread[n - c + k].id
      /\ n >= 2 => c >= 2
  BY <1>1, <1>3 DEF TailOf
<1>5. /\ ids \in Seq(Nat) /\ Len(ids) = c /\ all \in Seq(Nat) /\ Len(all) = n
      /\ \A k \in 1 .. c : ids[k] = chain[k].id
      /\ \A k \in 1 .. n : all[k] = thread[k].id
  <2>1. \A k \in 1 .. c : chain[k].id \in Nat
    <3>1. \A k \in 1 .. c : chain[k] \in Message
      BY <1>4
    <3> QED
      BY <3>1 DEF Message
  <2>2. \A k \in 1 .. n : thread[k].id \in Nat
    <3>1. \A k \in 1 .. n : thread[k] \in Message
      BY <1>1, <1>4
    <3> QED
      BY <3>1 DEF Message
  <2>3. ids = [k \in 1 .. c |-> chain[k].id] /\ all = [k \in 1 .. n |-> thread[k].id]
    BY <1>4
  <2> HIDE DEF ids, all
  <2>4. [k \in 1 .. c |-> chain[k].id] \in Seq(Nat) /\ Len(ids) = c
    BY <1>4, <2>1, <2>3
  <2>5. [k \in 1 .. n |-> thread[k].id] \in Seq(Nat) /\ Len(all) = n
    BY <1>4, <2>2, <2>3
  <2> QED
    BY <2>3, <2>4, <2>5
<1> HIDE DEF ids, all
<1>6. ASSUME NEW m \in Nat, m <= n
       PROVE  /\ LastOf(all, m) \in Seq(Nat) /\ Len(LastOf(all, m)) = m
              /\ \A k \in 1 .. m : LastOf(all, m)[k] = all[n - m + k]
  <2>1. all \in Seq(Nat) /\ m <= Len(all)
    BY <1>5, <1>6
  <2>2. /\ LastOf(all, m) \in Seq(Nat) /\ Len(LastOf(all, m)) = m
        /\ \A k \in 1 .. m : LastOf(all, m)[k] = all[Len(all) - m + k]
    BY <2>1, LastOfIs
  <2> QED
    BY <1>5, <2>2
<1>7. \A k \in 2 .. c : ids[k] = all[n - c + k]
  <2>1. \A k \in 2 .. c : k \in 1 .. c /\ n - c + k \in 1 .. n
    BY <1>4
  <2> QED
    BY <1>4, <1>5, <2>1
<1>8. ids[c] = all[n]
  <2>1. CASE c >= 2
    <3>1. c \in 2 .. c /\ n - c + c = n
      BY <1>4, <2>1
    <3> QED
      BY <1>7, <3>1
  <2>2. CASE c = 1
    <3>1. n = 1
      BY <1>4, <2>2
    <3>2. n - c + 1 = 1 /\ \A first \in DOMAIN thread : first = 1
      BY <1>4, <2>2, <3>1
    <3>3. chain[1].id = thread[1].id
      BY <1>3, <3>2
    <3> QED
      BY <1>5, <2>2, <3>1, <3>3
  <2> QED
    BY <1>4, <2>1, <2>2
<1>9. CASE chain[1].id = thread[n - c + 1].id
  <2>1. 1 \in 1 .. c /\ n - c + 1 \in 1 .. n
    BY <1>4
  <2>2. ids[1] = all[n - c + 1]
    BY <1>5, <1>9, <2>1
  <2>3. \A k \in 1 .. c : ids[k] = all[n - c + k]
    <3>1. \A k \in 1 .. c : k = 1 \/ k \in 2 .. c
      BY <1>4
    <3> QED
      BY <1>7, <2>2, <3>1
  <2>4. /\ LastOf(all, c) \in Seq(Nat) /\ Len(LastOf(all, c)) = c
        /\ \A k \in 1 .. c : LastOf(all, c)[k] = all[n - c + k]
    BY <1>4, <1>6
  <2>5. ids = LastOf(all, c)
    <3> DEFINE end == LastOf(all, c)
    <3>1. end \in Seq(Nat) /\ Len(end) = c /\ \A k \in 1 .. c : end[k] = ids[k]
      BY <2>3, <2>4
    <3> HIDE DEF end
    <3>2. ids = end
      BY <1>5, <3>1, SeqEqual
    <3> QED
      BY <3>2 DEF end
  <2> QED
    BY <1>3, <1>4, <1>5, <1>8, <2>5 DEF ChainBounded, ids, all, chain, thread, Last
<1>10. ASSUME NEW first \in DOMAIN thread \cap {1, n - Depth + 1},
             IsEvent(thread[first]), chain[1].id = thread[first].id
      PROVE  ChainBounded
  <2> DEFINE end == LastOf(all, c - 1)
             both == <<all[first]>> \o end
  <2>1. c - 1 \in Nat /\ c - 1 <= n
    BY <1>4
  <2>2. /\ end \in Seq(Nat) /\ Len(end) = c - 1
        /\ \A k \in 1 .. c - 1 : end[k] = all[n - (c - 1) + k]
    BY <2>1, <1>6
  <2> HIDE DEF end
  <2>3. first \in 1 .. n /\ all[first] \in Nat /\ ids[1] = all[first]
    <3>1. first \in 1 .. n /\ 1 \in 1 .. c
      BY <1>4
    <3> QED
      BY <1>5, <1>10, <3>1
  <2>4. /\ both \in Seq(Nat) /\ Len(both) = c /\ both[1] = all[first]
        /\ \A k \in 2 .. c : both[k] = end[k - 1]
    <3>1. Len(end) + 1 = c
      BY <1>4, <2>2
    <3> QED
      BY <2>2, <2>3, <3>1, WithHead
  <2> HIDE DEF both
  <2>5. \A k \in 1 .. c : both[k] = ids[k]
    <3>1. ASSUME NEW k \in 2 .. c PROVE both[k] = ids[k]
      <4>1. k - 1 \in 1 .. c - 1 /\ n - (c - 1) + (k - 1) = n - c + k
        BY <1>4
      <4> QED
        BY <1>7, <2>2, <2>4, <4>1
    <3>2. \A k \in 1 .. c : k = 1 \/ k \in 2 .. c
      BY <1>4
    <3> QED
      BY <2>3, <2>4, <3>1, <3>2
  <2>6. ids = both
    BY <1>5, <2>4, <2>5, SeqEqual
  <2>7. /\ first \in DOMAIN all \cap {1, Len(all) - Depth + 1}
        /\ ids = <<all[first]>> \o LastOf(all, Len(ids) - 1)
    <3>1. DOMAIN all = 1 .. n
      BY <1>5
    <3> QED
      BY <1>5, <1>10, <2>3, <2>6, <3>1 DEF both, end
  <2> QED
    BY <1>3, <1>4, <1>5, <1>8, <1>10, <2>7 DEF ChainBounded, ids, all, chain, thread, Last
<1> QED
  BY <1>3, <1>9, <1>10

-----------------------------------------------------------------------------
(* The context that is assembled.                                          *)

LEMMA HistoryIs ==
    ASSUME walked \in Seq(Message), current \in Message
    PROVE  History \in Seq(Message) /\ History # <<>>
<1>1. CASE walked = <<>>
  <2> DEFINE alone == [id |-> 0, number |-> 0, reply |-> 0, parent |-> 0,
                       text |-> current.text, size |-> current.size]
  <2>1. alone \in Message
    BY DEF Message
  <2>2. History = <<alone>>
    BY <1>1 DEF History
  <2> HIDE DEF alone
  <2> QED
    BY <2>1, <2>2
<1>2. CASE walked # <<>> /\ mode = "private"
  BY <1>2 DEF History
<1>3. CASE walked # <<>> /\ mode # "private"
  <2> DEFINE thread == Reverse(walked)
             chain == WithinBudget(WithinDepth(thread))
  <2>1. thread \in Seq(Message) /\ thread # <<>>
    BY <1>3, ThreadIs
  <2>2. History = chain
    BY <1>3 DEF History, ReplyChain
  <2> HIDE DEF thread
  <2>3. TailOf(chain, thread)
    BY <2>1, ReplyChainIs
  <2> HIDE DEF chain
  <2>4. chain \in Seq(Message) /\ Len(chain) >= 1
    BY <2>3 DEF TailOf
  <2> QED
    BY <2>2, <2>4
<1> QED
  BY <1>1, <1>2, <1>3

\* The parent is there if its row is.
LEMMA WithParentIs ==
    ASSUME RowTypes, NEW s \in Seq(Message), s # <<>>, NEW t, t = WithParent(s)
    PROVE  /\ t \in Seq(Message) /\ t # <<>>
           /\ current.parent \in DOMAIN rows =>
                 \E n \in DOMAIN t : t[n] = Read(current.parent)
<1> DEFINE parent == Read(current.parent)
           there == \E n \in DOMAIN s : s[n].id = parent.id
           replaced == [n \in DOMAIN s |-> IF s[n].id = parent.id THEN parent ELSE s[n]]
<1>1. /\ DOMAIN s = 1 .. Len(s) /\ Len(s) \in Nat /\ Len(s) >= 1
      /\ \A n \in 1 .. Len(s) : s[n] \in Message
  OBVIOUS
<1>2. CASE current.parent \notin DOMAIN rows
  BY <1>2 DEF WithParent
<1>3. CASE current.parent \in DOMAIN rows /\ there
  <2>1. parent \in Message
    BY <1>3, ReadTypes
  <2>2. t = replaced
    BY <1>3 DEF WithParent
  <2> HIDE DEF parent
  <2>3. t = [n \in 1 .. Len(s) |-> IF s[n].id = parent.id THEN parent ELSE s[n]]
    BY <1>1, <2>2
  <2>4. \A n \in 1 .. Len(s) : (IF s[n].id = parent.id THEN parent ELSE s[n]) \in Message
    BY <1>1, <2>1
  <2>5. t \in Seq(Message) /\ Len(t) = Len(s)
    BY <1>1, <2>3, <2>4
  <2>6. \E n \in 1 .. Len(s) : t[n] = parent
    BY <1>1, <1>3, <2>3
  <2> QED
    BY <1>1, <2>5, <2>6 DEF parent
<1>4. CASE current.parent \in DOMAIN rows /\ ~there
  <2>1. parent \in Message
    BY <1>4, ReadTypes
  <2>2. t = <<parent>> \o s
    BY <1>4 DEF WithParent
  <2> HIDE DEF parent
  <2>3. t \in Seq(Message) /\ Len(t) = Len(s) + 1 /\ t[1] = parent
    BY <2>1, <2>2, WithHead
  <2>4. 1 \in DOMAIN t /\ t # <<>>
    BY <1>1, <2>3
  <2> QED
    BY <2>3, <2>4 DEF parent
<1> QED
  BY <1>2, <1>3, <1>4

\* The current message is the last one, and only its own place is lost.
LEMMA WithCurrentIs ==
    ASSUME NEW s \in Seq(Message), s # <<>>, current \in Message, NEW t, t = WithCurrent(s)
    PROVE  /\ t \in Seq(Message) /\ Len(t) >= 1 /\ t[Len(t)] = current
           /\ \A n \in DOMAIN s : s[n].id # current.id => \E k \in DOMAIN t : t[k] = s[n]
<1>1. Len(s) \in Nat /\ Len(s) >= 1 /\ DOMAIN s = 1 .. Len(s)
  OBVIOUS
<1>2. CASE s[Len(s)].id = current.id
  <2> DEFINE m == Len(s) - 1
             front == Front(s)
  <2>1. /\ m \in Nat /\ m - 1 + 1 = m /\ m <= Len(s) /\ 1 <= m + 1
        /\ \A i \in 1 .. m : 1 + i - 1 = i
    BY <1>1
  <2>2. front = SubSeq(s, 1, m)
    BY DEF Front
  <2> HIDE DEF m
  <2>3. /\ SubSeq(s, 1, m) \in Seq(Message) /\ Len(SubSeq(s, 1, m)) = m - 1 + 1
        /\ \A i \in 1 .. m - 1 + 1 : SubSeq(s, 1, m)[i] = s[1 + i - 1]
    BY <2>1, PartIs
  <2> HIDE DEF front
  <2>4. front \in Seq(Message) /\ Len(front) = m /\ \A i \in 1 .. m : front[i] = s[i]
    BY <2>1, <2>2, <2>3
  <2>5. t = Append(front, current)
    BY <1>2 DEF WithCurrent, Last, front
  <2>6. /\ t \in Seq(Message) /\ Len(t) = m + 1 /\ t[m + 1] = current
        /\ \A i \in 1 .. m : t[i] = s[i]
    <3> DEFINE a == Append(front, current)
    <3>1. /\ a \in Seq(Message) /\ Len(a) = Len(front) + 1
          /\ \A i \in 1 .. Len(front) : a[i] = front[i]
          /\ a[Len(front) + 1] = current
      BY <2>4, AppendProperties
    <3>2. t = a
      BY <2>5
    <3> HIDE DEF a
    <3>3. t \in Seq(Message) /\ Len(t) = m + 1 /\ t[m + 1] = current
      BY <2>4, <3>1, <3>2
    <3>4. \A i \in 1 .. m : t[i] = s[i]
      BY <2>4, <3>1, <3>2
    <3> QED
      BY <3>3, <3>4
  <2>7. ASSUME NEW n \in 1 .. Len(s), n # Len(s)
        PROVE  n \in 1 .. m
    <3> DEFINE len == Len(s)
    <3>1. len \in Nat /\ n \in 1 .. len /\ n # len
      BY <1>1, <2>7
    <3>2. m = len - 1
      BY DEF m
    <3> HIDE DEF len
    <3> QED
      BY <3>1, <3>2
  <2>8. DOMAIN t = 1 .. m + 1 /\ \A n \in 1 .. m : n \in 1 .. m + 1
    BY <2>1, <2>6
  <2> QED
    BY <1>1, <1>2, <2>1, <2>6, <2>7, <2>8
<1>3. CASE s[Len(s)].id # current.id
  <2>1. t = Append(s, current)
    BY <1>3 DEF WithCurrent, Last
  <2>2. /\ t \in Seq(Message) /\ Len(t) = Len(s) + 1 /\ t[Len(s) + 1] = current
        /\ \A i \in 1 .. Len(s) : t[i] = s[i]
    BY <1>1, <2>1
  <2>3. DOMAIN t = 1 .. Len(s) + 1 /\ \A n \in 1 .. Len(s) : n \in 1 .. Len(s) + 1
    BY <1>1, <2>2
  <2> QED
    BY <1>1, <2>2, <2>3
<1> QED
  BY <1>2, <1>3

Kept(s) == {n \in DOMAIN s : s[n].id <= current.id}

UpTo(s) ==
    [n \in Kept(s) |->
        {m \in Kept(s) : s[m].id < s[n].id \/ (s[m].id = s[n].id /\ m <= n)}]

LEMMA OrderIsTotal ==
    ASSUME NEW s \in Seq(Message)
    PROVE  Ranks(Kept(s), UpTo(s))
<1> DEFINE K == Kept(s)
           up == UpTo(s)
<1>1. \A n \in K : n \in Nat /\ s[n].id \in Nat
  <2>1. \A n \in DOMAIN s : n \in Nat /\ s[n] \in Message
    OBVIOUS
  <2> QED
    BY <2>1 DEF Kept, Message
<1>2. up \in [K -> SUBSET K]
  BY DEF UpTo
<1>3. \A n \in K : up[n] = {m \in K : s[m].id < s[n].id \/ (s[m].id = s[n].id /\ m <= n)}
  BY DEF UpTo
<1> HIDE DEF K, up
<1>4. \A n \in K : n \in up[n]
  BY <1>1, <1>3
<1>5. ASSUME NEW m \in K, NEW n \in K, s[m].id < s[n].id \/ (s[m].id = s[n].id /\ m < n)
      PROVE  up[m] \subseteq up[n] /\ n \notin up[m]
  <2>1. ASSUME NEW l \in K, s[l].id < s[m].id \/ (s[l].id = s[m].id /\ l <= m)
        PROVE  s[l].id < s[n].id \/ (s[l].id = s[n].id /\ l <= n)
    BY <1>1, <1>5, <2>1
  <2>2. ~(s[n].id < s[m].id \/ (s[n].id = s[m].id /\ n <= m))
    BY <1>1, <1>5
  <2> QED
    BY <1>3, <2>1, <2>2
<1>6. ASSUME NEW m \in K, NEW n \in K, m # n
      PROVE  \/ s[m].id < s[n].id \/ (s[m].id = s[n].id /\ m < n)
             \/ s[n].id < s[m].id \/ (s[n].id = s[m].id /\ n < m)
  BY <1>1, <1>6
<1>7. \A m, n \in K : m # n => \/ up[m] \subseteq up[n] /\ n \notin up[m]
                               \/ up[n] \subseteq up[m] /\ m \notin up[n]
  BY <1>5, <1>6
<1>8. Ranks(K, up)
  BY <1>2, <1>4, <1>7 DEF Ranks
<1> QED
  BY <1>8 DEF K, up

\* The order takes every message that is kept to one place, and the last one
\* that has the id of the current message to the last place.
LEMMA InOrderIs ==
    ASSUME NEW s \in Seq(Message), current \in Message, NEW t, t = InOrder(s)
    PROVE  /\ t \in Seq(Message)
           /\ \A n \in DOMAIN s : s[n].id <= current.id => \E k \in DOMAIN t : t[k] = s[n]
           /\ Len(s) >= 1 /\ s[Len(s)] = current => Len(t) >= 1 /\ t[Len(t)] = current
<1> DEFINE K == Kept(s)
           up == UpTo(s)
           card == Cardinality(K)
<1>1. DOMAIN s = 1 .. Len(s) /\ Len(s) \in Nat /\ \A n \in DOMAIN s : s[n] \in Message
  OBVIOUS
<1>2. IsFiniteSet(K) /\ card \in Nat /\ K \subseteq DOMAIN s
  <2>1. IsFiniteSet(1 .. Len(s)) /\ K \in SUBSET (1 .. Len(s))
    BY <1>1, FS_Interval DEF Kept
  <2> HIDE DEF K
  <2> QED
    BY <1>1, <2>1, FS_Subset, FS_CardinalityType
<1>3. t = [k \in 1 .. card |-> s[CHOOSE n \in K : Cardinality(up[n]) = k]]
  BY DEF InOrder, Kept, UpTo
<1>4. Ranks(K, up)
  BY OrderIsTotal
<1> HIDE DEF K, up
<1>5. /\ \A m, n \in K : Cardinality(up[m]) = Cardinality(up[n]) => m = n
      /\ \A k \in 1 .. card : \E n \in K : Cardinality(up[n]) = k
  BY <1>2, <1>4, RanksAreTaken
<1> HIDE DEF card
<1>6. t \in Seq(Message) /\ Len(t) = card
  <2>1. \A k \in 1 .. card : (CHOOSE n \in K : Cardinality(up[n]) = k) \in K
    BY <1>5
  <2>2. \A k \in 1 .. card : s[CHOOSE n \in K : Cardinality(up[n]) = k] \in Message
    BY <1>1, <1>2, <2>1
  <2> QED
    BY <1>2, <1>3, <2>2
<1>7. ASSUME NEW n \in K
      PROVE  Cardinality(up[n]) \in 1 .. card /\ t[Cardinality(up[n])] = s[n]
  <2>1. up[n] \in SUBSET K /\ n \in up[n]
    BY <1>4 DEF Ranks
  <2>2. IsFiniteSet(up[n]) /\ Cardinality(up[n]) <= card /\ Cardinality(up[n]) \in Nat
    BY <1>2, <2>1, FS_Subset, FS_CardinalityType DEF card
  <2>3. Cardinality(up[n]) # 0
    BY <2>1, <2>2, FS_EmptySet
  <2>4. Cardinality(up[n]) \in 1 .. card
    BY <1>2, <2>2, <2>3
  <2>5. (CHOOSE m \in K : Cardinality(up[m]) = Cardinality(up[n])) = n
    BY <1>5
  <2> QED
    BY <1>3, <2>4, <2>5
<1>8. ASSUME NEW n \in DOMAIN s, s[n].id <= current.id
      PROVE  \E k \in DOMAIN t : t[k] = s[n]
  <2>1. n \in K
    BY <1>8 DEF K, Kept
  <2>2. DOMAIN t = 1 .. card
    BY <1>3
  <2> QED
    BY <1>7, <2>1, <2>2
<1>9. ASSUME Len(s) >= 1, s[Len(s)] = current
      PROVE  Len(t) >= 1 /\ t[Len(t)] = current
  <2> DEFINE n == Len(s)
  <2>1. n \in DOMAIN s /\ s[n].id = current.id /\ current.id \in Nat
    BY <1>1, <1>9 DEF Message
  <2>2. n \in K
    BY <2>1 DEF K, Kept
  <2>3. \A m \in K : m \in Nat /\ m <= n /\ s[m].id \in Nat /\ s[m].id <= s[n].id
    <3>1. ASSUME NEW m \in K
          PROVE  m \in 1 .. n /\ s[m] \in Message /\ s[m].id <= current.id
      BY <1>1, <1>2 DEF K, Kept
    <3>2. \A m \in K : s[m].id \in Nat
      BY <3>1 DEF Message
    <3> QED
      BY <1>1, <2>1, <3>1, <3>2
  <2>4. \A m \in K : s[m].id < s[n].id \/ (s[m].id = s[n].id /\ m <= n)
    BY <2>1, <2>3
  <2>5. up[n] = K
    BY <2>2, <2>4 DEF K, up, UpTo
  <2> HIDE DEF n
  <2>6. card \in 1 .. card /\ t[card] = s[n]
    BY <1>7, <2>2, <2>5 DEF card
  <2> QED
    BY <1>2, <1>6, <1>9, <2>6 DEF n
<1> QED
  BY <1>6, <1>8, <1>9

\* What Assemble gives the agent.
LEMMA AssembledIs ==
    ASSUME RowTypes, walked \in Seq(Message), current \in Message, NEW t,
           t = InOrder(WithCurrent(WithParent(History)))
    PROVE  /\ t \in Seq(Message) /\ Len(t) >= 1 /\ t[Len(t)] = current
           /\ current.parent \in DOMAIN rows /\ current.parent < current.id =>
                 \E k \in DOMAIN t : t[k].number = rows[current.parent].number
<1> DEFINE h == History
           p == WithParent(h)
           c == WithCurrent(p)
<1>1. h \in Seq(Message) /\ h # <<>>
  BY HistoryIs
<1> HIDE DEF h
<1>2. /\ p \in Seq(Message) /\ p # <<>>
      /\ current.parent \in DOMAIN rows => \E n \in DOMAIN p : p[n] = Read(current.parent)
  BY <1>1, WithParentIs
<1> HIDE DEF p
<1>3. /\ c \in Seq(Message) /\ Len(c) >= 1 /\ c[Len(c)] = current
      /\ \A n \in DOMAIN p : p[n].id # current.id => \E k \in DOMAIN c : c[k] = p[n]
  BY <1>2, WithCurrentIs
<1>4. t = InOrder(c)
  BY DEF c, p, h
<1> HIDE DEF c
<1>5. /\ t \in Seq(Message) /\ Len(t) >= 1 /\ t[Len(t)] = current
      /\ \A n \in DOMAIN c : c[n].id <= current.id => \E k \in DOMAIN t : t[k] = c[n]
  BY <1>3, <1>4, InOrderIs
<1>6. ASSUME current.parent \in DOMAIN rows, current.parent < current.id
      PROVE  \E k \in DOMAIN t : t[k].number = rows[current.parent].number
  <2> DEFINE parent == Read(current.parent)
  <2>1. parent.id = current.parent /\ parent.number = rows[current.parent].number
    BY <1>6, ReadTypes
  <2> HIDE DEF parent
  <2>2. PICK n \in DOMAIN p : p[n] = parent
    BY <1>2, <1>6 DEF parent
  <2>3. current.parent \in Nat /\ current.id \in Nat
    BY DEF Message
  <2>4. parent.id # current.id /\ parent.id <= current.id
    BY <1>6, <2>1, <2>3
  <2>5. PICK k \in DOMAIN c : c[k] = parent
    BY <1>3, <2>2, <2>4
  <2>6. \E l \in DOMAIN t : t[l] = parent
    BY <1>5, <2>4, <2>5
  <2> QED
    BY <2>1, <2>6
<1> QED
  BY <1>5, <1>6

-----------------------------------------------------------------------------
(* Types, and the parent of the message that is answered.                  *)

HandlerTypes ==
    /\ stored \in 0 .. MaxStored /\ era \in {"earlier", "live"}
    /\ pc \in {"idle", "reading", "assembling"} /\ mode \in {"group", "private"}
    /\ current \in Message /\ cursor \in Nat
    /\ walked \in Seq(Message) /\ context \in Seq(Message)

\* The row of the parent is that of the message replied to.  If the parent is
\* removed, its id stays free as long as the handler's message has a larger one.
ParentReplied ==
    pc # "idle" /\ current.parent \in DOMAIN rows /\ current.parent < current.id =>
        rows[current.parent].number = current.reply

IInv == TableInv /\ ReaderInv /\ HandlerTypes /\ ParentReplied

LEMMA AscendingIs ==
    ASSUME NEW S \in SUBSET Nat, IsFiniteSet(S)
    PROVE  Ascending(S) \in Seq(S)
<1> DEFINE card == Cardinality(S)
           at(k) == CHOOSE i \in S : Cardinality({j \in S : j <= i}) = k
<1>1. card \in Nat
  BY FS_CardinalityType
<1>2. \A k \in 1 .. card : at(k) \in S
  BY AscendingRanks
<1>3. Ascending(S) = [k \in 1 .. card |-> at(k)]
  BY DEF Ascending
<1> HIDE DEF card, at
<1> QED
  BY <1>1, <1>2, <1>3

LEMMA RecentIs ==
    ASSUME RowTypes
    PROVE  Recent \in Seq(Message)
<1> DEFINE shown == {i \in DOMAIN rows : rows[i].text # "provisional"}
           all == Ascending(shown)
           first == Max({1, Len(all) - RecentLimit + 1})
           ids == SubSeq(all, first, Len(all))
           read == [n \in DOMAIN ids |-> Read(ids[n])]
<1>1. shown \in SUBSET Nat /\ IsFiniteSet(shown) /\ shown \subseteq DOMAIN rows
  <2>1. /\ IsFiniteSet(1 .. stored) /\ shown \in SUBSET (1 .. stored)
        /\ 1 .. stored \subseteq Nat
    BY FS_Interval DEF RowTypes
  <2>2. shown \subseteq DOMAIN rows
    OBVIOUS
  <2> HIDE DEF shown
  <2> QED
    BY <2>1, <2>2, FS_Subset
<1> HIDE DEF shown
<1>2. all \in Seq(shown)
  BY <1>1, AscendingIs
<1> HIDE DEF all
<1>3. first \in Int /\ first >= 1 /\ Len(all) \in Nat
  BY <1>2, MaxOfTwo, ConstantTypes
<1>4. ids \in Seq(shown)
  <2>1. \A i \in first .. Len(all) : all[i] \in shown
    BY <1>2, <1>3
  <2> HIDE DEF first
  <2> QED
    BY <1>3, <2>1, SubSeqProperties
<1>5. Recent = FittingTail(read, Chars)
  BY DEF Recent, LastOf, shown, all
<1> HIDE DEF ids
<1>6. read \in Seq(Message)
  <2>1. /\ DOMAIN ids = 1 .. Len(ids) /\ Len(ids) \in Nat
        /\ \A n \in 1 .. Len(ids) : ids[n] \in DOMAIN rows
    <3>1. /\ DOMAIN ids = 1 .. Len(ids) /\ Len(ids) \in Nat
          /\ \A n \in 1 .. Len(ids) : ids[n] \in shown
      BY <1>4
    <3> QED
      BY <1>1, <3>1
  <2>2. read = [n \in 1 .. Len(ids) |-> Read(ids[n])]
    BY <2>1
  <2>3. \A n \in 1 .. Len(ids) : Read(ids[n]) \in Message
    BY <2>1, ReadTypes
  <2> QED
    BY <2>1, <2>2, <2>3
<1> HIDE DEF read
<1>7. EndOf(FittingTail(read, Chars), read)
  BY <1>6, ConstantTypes, FittingTailIs
<1> QED
  BY <1>5, <1>7 DEF EndOf

LEMMA InitIInv == Init => IInv
<1> SUFFICES ASSUME Init
             PROVE  IInv
  OBVIOUS
<1>1. MaxStored \in Nat
  BY ConversationAssumption DEF ConversationAssumption
<1>2. Nothing \in Message
  BY ConstantTypes DEF Nothing, Message
<1>3. HandlerTypes
  BY <1>1, <1>2 DEF Init, HandlerTypes
<1>4. ReaderInv /\ ParentReplied
  BY DEF Init, ReaderInv, MessageStays, WalkFits, ParentReplied
<1> QED
  BY <1>3, <1>4, InitTable DEF IInv

\* A write keeps what the handler knows.
LEMMA WritesKeepParent ==
    ASSUME IInv, IdsKept, UNCHANGED handlerVars
    PROVE  ParentReplied'
<1> SUFFICES ASSUME pc # "idle", current.parent \in DOMAIN rows', current.parent < current.id
             PROVE  rows'[current.parent].number = current.reply
  BY DEF ParentReplied, handlerVars
<1>1. current.id \in DOMAIN rows /\ current.parent \in Nat /\ current.id \in Nat
  BY DEF IInv, HandlerTypes, ReaderInv, MessageStays, Message
<1>2. current.parent \in DOMAIN rows
  <2>1. current.parent \notin DOMAIN rows => current.id < current.parent
    BY <1>1 DEF IdsKept
  <2> QED
    BY <1>1, <2>1
<1> QED
  BY <1>2 DEF IdsKept, IInv, ParentReplied

LEMMA NextTypes ==
    ASSUME IInv, [Next]_vars
    PROVE  HandlerTypes' /\ ParentReplied'
<1> USE DEF IInv
<1>1. ASSUME NEW post \in Posts, Store(post)
      PROVE  HandlerTypes' /\ ParentReplied'
  <2>1. HandlerTypes'
    <3>1. stored' \in 0 .. MaxStored
      BY <1>1, ConversationAssumption DEF Store, HandlerTypes, ConversationAssumption
    <3>2. era' \in {"earlier", "live"}
      BY <1>1 DEF Store
    <3> QED
      BY <1>1, <3>1, <3>2 DEF Store, HandlerTypes, handlerVars, Message
  <2>2. ParentReplied'
    BY <1>1, StoreKeepsIds, WritesKeepParent DEF Store
  <2> QED
    BY <2>1, <2>2
<1>2. ASSUME NEW number \in Numbers, NEW text \in {"progress", "final"},
             UpdateBotText(number, text)
      PROVE  HandlerTypes' /\ ParentReplied'
  <2>1. HandlerTypes'
    BY <1>2 DEF UpdateBotText, HandlerTypes, handlerVars, Message
  <2>2. ParentReplied'
    BY <1>2, UpdateKeepsIds, WritesKeepParent DEF UpdateBotText
  <2> QED
    BY <2>1, <2>2
<1>3. ASSUME NEW before \in 1 .. stored + 1, Prune(before)
      PROVE  HandlerTypes' /\ ParentReplied'
  <2>1. HandlerTypes'
    BY <1>3 DEF Prune, HandlerTypes, handlerVars, Message
  <2>2. ParentReplied'
    BY <1>3, PruneKeepsIds, WritesKeepParent DEF Prune
  <2> QED
    BY <2>1, <2>2
<1>4. ASSUME NEW i \in DOMAIN rows, NEW as \in {"group", "private"}, Begin(i, as)
      PROVE  HandlerTypes' /\ ParentReplied'
  <2>1. RowTypes /\ Edges /\ i \in Nat /\ Read(i) \in Message
    BY ReadTypes DEF TableInv, RowTypes
  <2>2. /\ pc' = "reading" /\ mode' = as /\ current' = Read(i) /\ walked' = <<>>
        /\ context' = <<>> /\ cursor' = i
        /\ rows' = rows /\ stored' = stored /\ era' = era
    BY <1>4 DEF Begin, storeVars
  <2>3. HandlerTypes'
    <3>1. <<>> \in Seq(Message)
      OBVIOUS
    <3>2. current' \in Message /\ walked' \in Seq(Message) /\ context' \in Seq(Message)
      BY <2>1, <2>2, <3>1
    <3>3. stored' \in 0 .. MaxStored /\ era' \in {"earlier", "live"} /\ cursor' \in Nat
      BY <2>1, <2>2 DEF HandlerTypes
    <3>4. Message' = Message
      BY DEF Message
    <3> QED
      BY <2>2, <3>2, <3>3, <3>4 DEF HandlerTypes
  <2>4. ParentReplied'
    <3>1. Read(i).parent = rows[i].parent /\ Read(i).reply = rows[i].reply
      BY DEF Read
    <3>2. rows[i].parent \in DOMAIN rows => rows[i].parent # 0
      BY <2>1 DEF RowTypes
    <3>3. rows[i].parent \in DOMAIN rows => rows[rows[i].parent].number = rows[i].reply
      BY <2>1, <3>2 DEF Edges
    <3> QED
      BY <2>2, <3>1, <3>3 DEF ParentReplied
  <2> QED
    BY <2>3, <2>4
<1>5. ASSUME Walk
      PROVE  HandlerTypes' /\ ParentReplied'
  <2>1. /\ UNCHANGED <<rows, stored, era, mode, current, context>>
        /\ pc = "reading" /\ pc' \in {"reading", "assembling"}
    BY <1>5 DEF Walk, storeVars
  <2>2. cursor' \in Nat /\ walked' \in Seq(Message)
    <3>1. CASE UNCHANGED <<walked, cursor>>
      BY <3>1 DEF HandlerTypes, Message
    <3>2. CASE /\ cursor \in DOMAIN rows
               /\ walked' = Append(walked, Read(cursor))
               /\ cursor' = rows[cursor].parent
      <4>1. Read(cursor) \in Message /\ rows[cursor] \in Row
        BY <3>2, ReadTypes DEF TableInv, RowTypes
      <4>2. rows[cursor].parent \in Nat
        BY <4>1 DEF Row
      <4> QED
        BY <3>2, <4>1, <4>2 DEF HandlerTypes
    <3> QED
      BY <1>5, <3>1, <3>2 DEF Walk
  <2> QED
    BY <2>1, <2>2 DEF HandlerTypes, ParentReplied, Message
<1>6. ASSUME ReadRecent
      PROVE  HandlerTypes' /\ ParentReplied'
  <2>1. Recent \in Seq(Message)
    BY RecentIs DEF TableInv
  <2> QED
    BY <1>6, <2>1 DEF ReadRecent, storeVars, HandlerTypes, ParentReplied, Message
<1>7. ASSUME ReadFails
      PROVE  HandlerTypes' /\ ParentReplied'
  BY <1>7 DEF ReadFails, storeVars, HandlerTypes, ParentReplied, Message
<1>8. ASSUME Assemble
      PROVE  HandlerTypes' /\ ParentReplied'
  <2>1. context' \in Seq(Message)
    BY <1>8, AssembledIs DEF Assemble, HandlerTypes, TableInv
  <2> QED
    BY <1>8, <2>1 DEF Assemble, storeVars, HandlerTypes, ParentReplied, Message
<1>9. ASSUME UNCHANGED vars
      PROVE  HandlerTypes' /\ ParentReplied'
  BY <1>9 DEF vars, storeVars, handlerVars, HandlerTypes, ParentReplied, Message
<1> QED
  BY <1>1, <1>2, <1>3, <1>4, <1>5, <1>6, <1>7, <1>8, <1>9 DEF Next

LEMMA IInvAlways == Spec => []IInv
<1>1. IInv /\ [Next]_vars => IInv'
  BY NextTable, NextReader, NextTypes DEF IInv
<1> QED
  BY <1>1, InitIInv, PTL DEF Spec

\* The tables and the handler have their types, numbers are unique, and every
\* chain that BuildReplyChain returns keeps to its depth and budget, ends with
\* the message answered and leaves out only what ChainBounded allows.
THEOREM ConversationInvHolds == Spec => []ConversationInv
<1>1. IInv => TypeOK
  BY DEF IInv, TableInv, RowTypes, OneRowPerNumber, HandlerTypes, TypeOK
<1>2. IInv => ChainBounded
  BY ReplyChainBounded DEF IInv, HandlerTypes
<1>3. IInv => ConversationInv
  BY <1>1, <1>2 DEF ConversationInv
<1> QED
  BY <1>3, IInvAlways, PTL

\* The context that runAgentReply gives the agent ends with the message to
\* answer and has the message replied to, if it is there and was stored before.
THEOREM ContextsHaveTheParent == Spec => ParentInContext
<1> DEFINE Kept1 == Assembled =>
                      /\ Last(context') = current
                      /\ current.parent \in DOMAIN rows /\ current.parent < current.id => HasParent
<1>1. IInv /\ [Next]_vars => [Kept1]_vars
  <2> SUFFICES ASSUME IInv, [Next]_vars, Assembled
               PROVE  /\ Last(context') = current
                      /\ current.parent \in DOMAIN rows /\ current.parent < current.id => HasParent
    OBVIOUS
  <2>1. pc = "assembling" /\ pc' = "idle"
    BY DEF Assembled
  <2>2. Assemble
    BY <2>1 DEF Next, Store, UpdateBotText, Prune, Begin, Walk, ReadRecent, ReadFails,
                vars, handlerVars
  <2>3. /\ context' \in Seq(Message) /\ Len(context') >= 1 /\ context'[Len(context')] = current
        /\ current.parent \in DOMAIN rows /\ current.parent < current.id =>
              \E k \in DOMAIN context' : context'[k].number = rows[current.parent].number
    BY <2>2, AssembledIs DEF Assemble, IInv, HandlerTypes, TableInv
  <2>4. Last(context') = current
    BY <2>3 DEF Last
  <2>5. current.parent \in DOMAIN rows /\ current.parent < current.id =>
           rows[current.parent].number = current.reply
    BY <2>1 DEF IInv, ParentReplied
  <2> QED
    BY <2>3, <2>4, <2>5 DEF HasParent
<1> QED
  BY <1>1, IInvAlways, PTL DEF Spec, ParentInContext
=============================================================================
