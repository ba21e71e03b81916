---------------------------- MODULE Conversation ----------------------------
(***************************************************************************)
(* The message graph of one chat (internal/conversation) and the context   *)
(* that a handler builds from it for the agent (runAgentReply).            *)
(*                                                                         *)
(* Telegram numbers the messages of a chat, and a reply names an earlier   *)
(* number; the table gives each row an id of its own, in the order of      *)
(* storing, and an edge to the row of the message replied to.  Messages    *)
(* are stored in any order, rows are pruned by age, and a row that         *)
(* contradicts the live message is rewritten.  The handler reads the rows  *)
(* one by one, so the graph changes under its walk.                        *)
(*                                                                         *)
(* A text is an element of Texts, with a size; cutting a text down is      *)
(* modelled by what is left of its size.                                   *)
(***************************************************************************)
EXTENDS Integers, Sequences, FiniteSets, SequencesExt

CONSTANTS
    Live,        \* Telegram's messages: number, sender, number replied to, text
    Stale,       \* what an earlier run of the bot left under the same numbers
    Texts,       \* "provisional", "progress" and "final" are the bot's
    Size,        \* of each text
    MaxStored,   \* bound: rows written
    Depth,       \* MaxDepth (16)
    Chars,       \* MaxChars (3000)
    RecentLimit  \* messages of a private conversation (10)

Posts == Live \cup Stale
Numbers == {p.number : p \in Posts}

ASSUME ConversationAssumption ==
    /\ {"provisional", "progress", "final", "event"} \subseteq Texts
    /\ \A text \in Texts : Size[text] \in Nat \ {0}
    /\ \A p \in Posts : /\ p.number \in Nat \ {0}
                        /\ p.sender \in {"user", "bot"}
                        /\ p.reply \in 0 .. p.number - 1
                        /\ p.text \in Texts
    /\ MaxStored \in Nat
    /\ Depth \in Nat \ {0, 1} /\ Chars \in Nat \ {0} /\ RecentLimit \in Nat \ {0}

VARIABLES
    rows,     \* messages, by id
    stored,   \* rows written so far, which is the clock
    era,      \* "earlier" as long as the rows are those of the earlier run
    pc,       \* the handler: "idle", "reading" or "assembling"
    mode,     \* whose conversation it answers: "group" or "private"
    current,  \* the message it answers, as it was read
    cursor,   \* the id to read next
    walked,   \* the messages read so far, for a group the newest first
    context   \* what the agent is given

storeVars == <<rows, stored, era>>
handlerVars == <<pc, mode, current, cursor, walked, context>>
vars == <<storeVars, handlerVars>>

\* A message as the code holds it in memory; nothing has id 0.
Nothing == [id |-> 0, number |-> 0, reply |-> 0, parent |-> 0, text |-> "final", size |-> 0]

\* The rows of the messages with a number.
RowsOf(number) == {i \in DOMAIN rows : rows[i].number = number}

\* The id of the row of a number, 0 if there is none.
Lookup(number) == IF RowsOf(number) = {} THEN 0 ELSE CHOOSE i \in RowsOf(number) : TRUE

\* ByID.
Read(i) == [id |-> i, number |-> rows[i].number, reply |-> rows[i].reply,
            parent |-> rows[i].parent, text |-> rows[i].text,
            size |-> Size[rows[i].text]]

Init ==
    /\ rows = <<>> /\ stored = 0 /\ era = "earlier"
    /\ pc = "idle" /\ mode = "group" /\ current = Nothing /\ cursor = 0
    /\ walked = <<>> /\ context = <<>>

-----------------------------------------------------------------------------
(* insert, for Ingest and StoreBot, in one transaction.                    *)

RowFor(post) ==
    [number |-> post.number, sender |-> post.sender, reply |-> post.reply,
     text |-> post.text, parent |-> Lookup(post.reply), created |-> stored + 1]

\* INTEGER PRIMARY KEY: one more than the largest id that is there.
NextId(id) == /\ \A i \in DOMAIN rows : i < id
              /\ id = 1 \/ id - 1 \in DOMAIN rows

\* A row that waited for the message with the number gets its edge.
Adopted(row, number, id) ==
    IF row.reply = number /\ row.parent = 0 THEN [row EXCEPT !.parent = id] ELSE row

\* Faulty variant of StoreNew: late parents are not looked for.
StoreWithoutRepair(post) ==
    /\ RowsOf(post.number) = {}
    /\ \E id \in 1 .. stored + 1 :
          /\ NextId(id)
          /\ rows' = [i \in DOMAIN rows \cup {id} |-> IF i = id THEN RowFor(post) ELSE rows[i]]

\* A new row; the children that waited for it get their edge.
StoreNew(post) ==
    /\ RowsOf(post.number) = {}
    /\ \E id \in 1 .. stored + 1 :
          /\ NextId(id)
          /\ rows' = [i \in DOMAIN rows \cup {id} |->
                        IF i = id THEN RowFor(post) ELSE Adopted(rows[i], post.number, id)]

\* Faulty variant of StoreOver: the edge of the stale row stays.
StoreOverContent(post) ==
    \E i \in RowsOf(post.number) :
        /\ rows[i].sender # post.sender
        /\ rows' = [rows EXCEPT ![i] = [RowFor(post) EXCEPT !.parent = rows[i].parent]]

\* A row with the number and another sender is stale data; it is rewritten.
StoreOver(post) ==
    \E i \in RowsOf(post.number) :
        /\ rows[i].sender # post.sender
        /\ rows' = [rows EXCEPT ![i] = RowFor(post)]

\* A duplicate delivery writes nothing.  What the earlier run left comes first.
Store(post) ==
    /\ stored < MaxStored
    /\ \/ post \in Live /\ era' = "live"
       \/ post \in Stale /\ era = "earlier" /\ UNCHANGED era
    /\ StoreNew(post) \/ StoreOver(post)
    /\ stored' = stored + 1
    /\ UNCHANGED handlerVars

-----------------------------------------------------------------------------
(* The other writes.                                                       *)

\* UpdateBotText: the placeholder becomes a progress line, and then the answer.
UpdateBotText(number, text) ==
    /\ \E i \in RowsOf(number) :
          /\ rows[i].sender = "bot" /\ rows[i].text \in {"provisional", "progress"}
          /\ rows' = [rows EXCEPT ![i].text = text]
    /\ UNCHANGED <<stored, era, handlerVars>>

\* Only old rows are pruned: retention is counted in hours, and a handler that
\* reads has a message of seconds ago (or, in the recovery, of the last run).
Expired(before) ==
    /\ pc # "idle" => before <= rows[current.id].created
    /\ \E i \in DOMAIN rows : rows[i].created < before

\* The rows written before a moment go; their children lose their edge.
Prune(before) ==
    LET old == {i \in DOMAIN rows : rows[i].created < before} IN
    /\ Expired(before)
    /\ rows' = [i \in DOMAIN rows \ old |->
                  IF rows[i].parent \in old THEN [rows[i] EXCEPT !.parent = 0]
                  ELSE rows[i]]
    /\ UNCHANGED <<stored, era, handlerVars>>

-----------------------------------------------------------------------------
(* BuildReplyChain and Recent, on the messages that were read.             *)

TotalSize(s) ==
    LET size == [n \in DOMAIN s |-> s[n].size]
    IN  MapThenSumSet(LAMBDA n : size[n], DOMAIN s)
Truncated(m, limit) == [m EXCEPT !.size = Min({m.size, Max({limit, 0})})]
IsEvent(m) == m.text = "event"

\* The last n elements of s, or all.
LastOf(s, n) == SubSeq(s, Max({1, Len(s) - n + 1}), Len(s))

\* From the end, as many messages as the budget takes; the last one is cut down.
FittingTail(s, budget) ==
    LET cut == Append(Front(s), Truncated(Last(s), budget))
        starts == {n \in 1 .. Len(s) : TotalSize(SubSeq(cut, n, Len(s))) <= budget}
    IN  IF s = <<>> THEN <<>> ELSE SubSeq(cut, Min(starts), Len(s))

\* The walk in order, with its /event root or without, in Depth messages.
WithinDepth(chain) ==
    IF Len(chain) <= Depth THEN chain
    ELSE IF IsEvent(chain[1]) THEN <<chain[1]>> \o LastOf(chain, Depth - 1)
    ELSE LastOf(chain, Depth)

\* The parent and the current message, each cut down.
Pair(chain) ==
    LET parent == Truncated(chain[Len(chain) - 1], Chars \div 2)
    IN  <<parent, Truncated(chain[Len(chain)], Chars - parent.size)>>

\* Faulty variant of WithinBudget: a message alone is enough.
WithinBudgetAlone(chain) ==
    LET root == Truncated(chain[1], Chars \div 2)
    IN  IF TotalSize(chain) <= Chars THEN chain
        ELSE IF IsEvent(chain[1])
             THEN <<root>> \o FittingTail(SubSeq(chain, 2, Len(chain)), Chars - root.size)
             ELSE FittingTail(chain, Chars)

\* The chain in Chars: a root takes at most half, and if one message is all
\* that is left, the pair is kept instead.
WithinBudget(chain) ==
    LET root == Truncated(chain[1], Chars \div 2)
        keep == IF IsEvent(chain[1])
                THEN <<root>> \o FittingTail(SubSeq(chain, 2, Len(chain)), Chars - root.size)
                ELSE FittingTail(chain, Chars)
    IN  IF TotalSize(chain) <= Chars THEN chain
        ELSE IF Len(keep) < 2 /\ Len(chain) >= 2 THEN Pair(chain)
        ELSE keep

ReplyChain == WithinBudget(WithinDepth(Reverse(walked)))

\* A set of numbers in ascending order: the n-th has n of them up to it.
Ascending(S) ==
    [n \in 1 .. Cardinality(S) |-> CHOOSE i \in S : Cardinality({j \in S : j <= i}) = n]

\* Recent: the last messages that are not placeholders, within Chars.
Recent ==
    LET shown == {i \in DOMAIN rows : rows[i].text # "provisional"}
        ids == LastOf(Ascending(shown), RecentLimit)
    IN  FittingTail([n \in DOMAIN ids |-> Read(ids[n])], Chars)

-----------------------------------------------------------------------------
(* runAgentReply.                                                          *)

\* The handler, or the startup recovery, has read the message to answer.
Begin(i, as) ==
    /\ pc = "idle"
    /\ rows[i].sender = "user"
    /\ \E post \in Live : post.number = rows[i].number /\ post.sender = rows[i].sender
    /\ era = "live"
    /\ mode' = as /\ current' = Read(i) /\ walked' = <<>> /\ context' = <<>>
    /\ cursor' = i /\ pc' = "reading"
    /\ UNCHANGED storeVars

\* One step up the reply edges; the walk ends at a message without a parent, at
\* a missing or a seen row, and after four times the depth.
Walk ==
    /\ pc = "reading" /\ mode = "group"
    /\ IF /\ cursor \in DOMAIN rows
          /\ \A n \in DOMAIN walked : walked[n].id # cursor
          /\ Len(walked) < 4 * Depth
       THEN /\ walked' = Append(walked, Read(cursor))
            /\ cursor' = rows[cursor].parent
            /\ pc' = IF cursor' = 0 THEN "assembling" ELSE pc
       ELSE /\ pc' = "assembling"
            /\ UNCHANGED <<walked, cursor>>
    /\ UNCHANGED <<storeVars, mode, current, context>>

\* A private conversation needs one read.
ReadRecent ==
    /\ pc = "reading" /\ mode = "private"
    /\ walked' = Recent /\ pc' = "assembling"
    /\ UNCHANGED <<storeVars, mode, current, cursor, context>>

\* A read fails: there is no history.
ReadFails ==
    /\ pc = "reading"
    /\ walked' = <<>> /\ pc' = "assembling"
    /\ UNCHANGED <<storeVars, mode, current, cursor, context>>

\* The history, or the current text alone as a message without an id.
History ==
    LET alone == [id |-> 0, number |-> 0, reply |-> 0, parent |-> 0,
                  text |-> current.text, size |-> current.size]
    IN  IF walked = <<>> THEN <<alone>>
        ELSE IF mode = "private" THEN walked ELSE ReplyChain

\* The parent takes its place in s, or the first place.
WithParent(s) ==
    LET parent == Read(current.parent) IN
    IF current.parent \notin DOMAIN rows THEN s
    ELSE IF \E n \in DOMAIN s : s[n].id = parent.id
         THEN [n \in DOMAIN s |-> IF s[n].id = parent.id THEN parent ELSE s[n]]
         ELSE <<parent>> \o s

\* The current message, whole, is the last one.
WithCurrent(s) ==
    Append(IF Last(s).id = current.id THEN Front(s) ELSE s, current)

\* The messages of s that were not stored after the current one, by id (stable):
\* the k-th has k of them up to it.
InOrder(s) ==
    LET kept == {n \in DOMAIN s : s[n].id <= current.id}
        upTo == [n \in kept |->
                    {m \in kept : s[m].id < s[n].id \/ (s[m].id = s[n].id /\ m <= n)}]
    IN  [k \in 1 .. Cardinality(kept) |->
            s[CHOOSE n \in kept : Cardinality(upTo[n]) = k]]

\* Faulty variant of Assemble: the parent is not looked for.
AssembleFromHistory ==
    /\ pc = "assembling"
    /\ context' = InOrder(WithCurrent(History))
    /\ pc' = "idle"
    /\ UNCHANGED <<storeVars, mode, current, cursor, walked>>

\* The history with the parent and the current message, without messages that
\* were stored later, ordered by id.
Assemble ==
    /\ pc = "assembling"
    /\ context' = InOrder(WithCurrent(WithParent(History)))
    /\ pc' = "idle"
    /\ UNCHANGED <<storeVars, mode, current, cursor, walked>>

-----------------------------------------------------------------------------

Next ==
    \/ \E post \in Posts : Store(post)
    \/ \E number \in Numbers, text \in {"progress", "final"} : UpdateBotText(number, text)
    \/ \E before \in 1 .. stored + 1 : Prune(before)
    \/ \E i \in DOMAIN rows, as \in {"group", "private"} : Begin(i, as)
    \/ Walk \/ ReadRecent \/ ReadFails
    \/ Assemble

Spec == Init /\ [][Next]_vars

-----------------------------------------------------------------------------
(* Properties.                                                             *)

Row == [number : Numbers, sender : {"user", "bot"}, reply : Nat, text : Texts,
        parent : Nat, created : 1 .. stored]
Message == [id : Nat, number : Nat, reply : Nat, parent : Nat, text : Texts, size : Nat]

\* The types, and the unique index of the numbers.
TypeOK ==
    /\ DOMAIN rows \subseteq 1 .. stored
    /\ \A i \in DOMAIN rows : rows[i] \in Row
    /\ \A i, j \in DOMAIN rows : rows[i].number = rows[j].number => i = j
    /\ stored \in 0 .. MaxStored /\ era \in {"earlier", "live"}
    /\ pc \in {"idle", "reading", "assembling"} /\ mode \in {"group", "private"}
    /\ current \in Message /\ cursor \in Nat
    /\ walked \in Seq(Message) /\ context \in Seq(Message)

\* docs/architecture.md: a message has "both the raw Telegram parent ID and,
\* where known, a local parent ID".  The local edge is there exactly when the
\* row of the message replied to is, and it is the edge to that row, in
\* whatever order messages are stored, stored over and pruned.
EdgesAgree == \A i \in DOMAIN rows : rows[i].parent = Lookup(rows[i].reply)

\* The messages that the group's context keeps belong to the thread of the
\* message that is answered: each was replied to, as it was read, by the one
\* that was read before, although rows came, went, changed and freed their ids
\* between the reads.  (An id above that of the message answered may be a freed
\* one that another message took; Assemble leaves those out.)
ContextIsOneThread ==
    pc = "assembling" /\ mode = "group" =>
        \A n \in 2 .. Len(walked) :
            walked[n].id < current.id => walked[n].number = walked[n - 1].reply

\* The comment in runAgentReply: it preserves "the live current text ... and
\* the immediate reply parent even when the graph's preliminary history is
\* bounded".  The agent's context ends with the message to answer, and it has
\* the parent if the parent is there and was stored before it.
Assembled == pc = "assembling" /\ pc' = "idle"
HasParent == \E n \in DOMAIN context' : context'[n].number = current.reply

ParentInContext ==
    [][Assembled =>
         /\ Last(context') = current
         /\ current.parent \in DOMAIN rows /\ current.parent < current.id => HasParent]_vars

\* A chain keeps to the depth and to the budget, ends with the message to
\* answer and, if there is a thread, is more than that message.  It is the end of
\* the thread, except that an /event that comes first, in the thread or in its
\* last Depth messages, is kept when messages after it are left out.
ChainBounded ==
    pc = "assembling" /\ mode = "group" /\ walked # <<>> =>
        LET chain == ReplyChain
            thread == Reverse(walked)
            ids == [n \in DOMAIN chain |-> chain[n].id]
            all == [n \in DOMAIN thread |-> thread[n].id]
        IN  /\ Len(chain) <= Depth /\ TotalSize(chain) <= Chars
            /\ Last(ids) = Last(all)
            /\ Len(all) >= 2 => Len(ids) >= 2
            /\ \/ ids = LastOf(all, Len(ids))
               \/ \E first \in DOMAIN all \cap {1, Len(all) - Depth + 1} :
                     /\ IsEvent(thread[first])
                     /\ ids = <<all[first]>> \o LastOf(all, Len(ids) - 1)

\* The state of the table and of the handler that reads it.
ConversationInv == TypeOK /\ ChainBounded

\* docs/architecture.md: "the current message, its immediate reply parent, and
\* all tool exchanges are protected".  The parent is in the context whenever
\* its row is there.
ParentKept == [][Assembled /\ current.parent \in DOMAIN rows => HasParent]_vars
=============================================================================
