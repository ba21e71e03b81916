--------------------------- MODULE ScheduleProofs ---------------------------
(***************************************************************************)
(* Proofs about Schedule and, after them, about its callers in             *)
(* ScheduleRequests, for any keys, calls, contents, dates and requests,    *)
(* and any number of executions.                                           *)
(*                                                                         *)
(* Every step of the store has one of five effects (StepHasEffect): an     *)
(* event is added, rewritten or withdrawn, an occurrence is left out, or   *)
(* only a receipt is written.  The proofs go by these effects instead of   *)
(* by the branches of the three transactions.                              *)
(*                                                                         *)
(* What carries the proofs about the callers is that each execution is     *)
(* where its request can be (Fits) and that Hermes' version of an event is *)
(* the one that its request read (the ETag does not change under a request *)
(* that was sent).                                                         *)
(***************************************************************************)
EXTENDS ScheduleRequests, SequenceTheorems, TLAPS

-----------------------------------------------------------------------------
(* The effects of a step.                                                  *)

Adds(k, c) ==
    /\ Call[k].op = "create" /\ c \in Contents(StoredRules)
    /\ sources[k] = 0
    /\ Inserted(c)
    /\ Logged(k, Len(events) + 1, c)
    /\ sources' = [sources EXCEPT ![k] = Len(events) + 1]
    /\ receipts' \in {receipts, [receipts EXCEPT ![k] = Len(events) + 1]}

\* A mutation of the active event Call[k].id under a new key.
Touches(k, c) ==
    /\ Call[k].id \in ActiveRows /\ c \in Contents(StoredRules)
    /\ sources[k] = 0
    /\ Logged(k, Call[k].id, c)
    /\ sources' = [sources EXCEPT ![k] = Call[k].id]
    /\ receipts' = [receipts EXCEPT ![k] = Call[k].id]

Rewrites(k, c) == Call[k].op = "update" /\ Touches(k, c) /\ Rewritten(Call[k].id, c)

Withdraws(k, c) == Call[k].op = "cancel" /\ Touches(k, c) /\ Cancelled(Call[k].id)

LeavesOut(k) ==
    LET id == Call[k].id IN
    /\ Call[k].op = "exclude"
    /\ id \in DOMAIN events /\ events[id].status = "active"
    /\ Call[k].date \notin events[id].excluded
    /\ events' = [events EXCEPT ![id].excluded = @ \cup {Call[k].date}]
    /\ Logged(k, id, events[id].content)
    /\ \/ UNCHANGED sources
       \/ sources[k] = 0 /\ sources' = [sources EXCEPT ![k] = id]
    /\ UNCHANGED receipts

\* No event and no change is written, at most a receipt of what is there.
OnlyAnswers ==
    /\ UNCHANGED <<events, changes, groupQueue, adminQueue>>
    /\ \/ UNCHANGED <<sources, receipts>>
       \/ \E k \in Keys : /\ receipts' = [receipts EXCEPT ![k] = sources[k]]
                          /\ UNCHANGED sources
       \/ \E k \in Keys : \E i \in DOMAIN events :
             /\ sources[k] = 0 /\ sources' = [sources EXCEPT ![k] = i]
             /\ UNCHANGED receipts

Effect ==
    \/ \E k \in Keys : \E c \in Contents(StoredRules) :
          Adds(k, c) \/ Rewrites(k, c) \/ Withdraws(k, c)
    \/ \E k \in Keys : LeavesOut(k)
    \/ OnlyAnswers

-----------------------------------------------------------------------------
(* Contents.                                                               *)

\* Whatever is asked for, what is stored has a limit or is a single event.
LEMMA NormalizedStored ==
    ASSUME NEW d \in Contents(Rules)
    PROVE  Normalized(d) \in Contents(StoredRules)
  BY DEF Normalized, Contents, Rules, StoredRules

\* Nor does the JSON of a stored event have other rules.
LEMMA JSONStored ==
    ASSUME NEW c \in Contents(StoredRules)
    PROVE  AsJSON(c) \in Contents(StoredRules)
  BY DEF AsJSON, Contents, StoredRules

\* What is written for a content is one that needs no rewriting, with its identity.
LEMMA ColumnsStored ==
    ASSUME NEW c \in Contents(StoredRules)
    PROVE  /\ AtMidnight(c) \in Contents(StoredRules)
           /\ Columns(c) \in StoredContents /\ Columns(c) \in Contents(StoredRules)
           /\ Canonical(Columns(c)) = Canonical(c)
           /\ Columns(AsJSON(c)) = AsJSON(Columns(c))
           /\ Canonical(AsJSON(Columns(c))) = Canonical(AsJSON(c))
  <1>1. c.raw \in SUBSET {"hour", "tags"}
    BY ScheduleAssumption DEF Contents
  <1>2. (c.raw \ {"hour"}) \ {"tags"} = {}
    BY <1>1
  <1> QED BY <1>1, <1>2 DEF AtMidnight, InOneSpelling, Columns, Contents, StoredRules,
                            StoredContents, Canonical, AsJSON

\* The identity of a stored content has the type of a dedupe key.
LEMMA CanonicalType ==
    ASSUME NEW c \in Contents(StoredRules)
    PROVE  Canonical(c) \in Titles \X Places \X StoredRules
  BY DEF Canonical, Contents

-----------------------------------------------------------------------------
(* Every step has an effect.                                               *)

\* A row of the tables has the type of a row.
LEMMA RowType ==
    ASSUME StoreTypeOK
    PROVE  /\ DOMAIN events = 1 .. Len(events) /\ Len(events) \in Nat
           /\ DOMAIN changes = 1 .. Len(changes) /\ Len(changes) \in Nat
           /\ \A i \in DOMAIN events : events[i] \in Event
           /\ \A n \in DOMAIN changes : changes[n] \in Change
  BY ElementOfSeq, LenProperties DEF StoreTypeOK

\* Each outcome of the three transactions has one of the five effects.
LEMMA StepHasEffect ==
    ASSUME StoreTypeOK, StoreNext
    PROVE  Effect
  <1> SUFFICES ASSUME NEW k \in Keys, NEW out \in Outcomes,
                      \/ \E d \in Contents(Rules) : ApplyAll(k, d, Seen(Call[k].id), out)
                      \/ \E d \in Contents(Rules) : Create(k, d, out)
                      \/ \E version \in {NoVersion} \cup
                                        {VersionInTx(i) : i \in DOMAIN events} :
                            ExcludeOccurrence(k, version, out)
               PROVE  Effect
    BY DEF StoreNext
  <1>1. ASSUME NEW d \in Contents(Rules), ApplyAll(k, d, Seen(Call[k].id), out)
        PROVE  Effect
    <2> DEFINE before == Seen(Call[k].id)
               c == Proposed(k, d, before)
    <2>1. CASE out = "replayed" /\ UNCHANGED storeVars
      BY <2>1 DEF Effect, OnlyAnswers, storeVars
    <2>2. CASE /\ receipts' = [receipts EXCEPT ![k] = sources[k]]
               /\ UNCHANGED <<events, sources, changes, groupQueue, adminQueue>>
      BY <2>2 DEF Effect, OnlyAnswers
    <2>3. CASE sources[k] = 0 /\ ApplyNew(k, c, before, out)
      <3>1. CASE UNCHANGED storeVars
        BY <3>1 DEF Effect, OnlyAnswers, storeVars
      <3>2. CASE /\ Call[k].op = "create" \/ Matches(Call[k].id, before)
                 /\ Written(k, c)
        <4>1. c \in Contents(StoredRules)
          <5>1. CASE Call[k].op = "cancel"
            <6>1. Call[k].id \in DOMAIN events /\ before = Snapshot(Get(Call[k].id))
              BY <3>2, <5>1 DEF Matches, ActiveRows, Rows
            <6>2. events[Call[k].id].content \in Contents(StoredRules)
              BY <6>1, RowType DEF Event, StoredContents
            <6>3. before.content = AsJSON(events[Call[k].id].content)
              BY <6>1 DEF Snapshot, Get, EventOf
            <6> QED BY <5>1, <6>2, <6>3, JSONStored DEF Proposed
          <5>2. CASE Call[k].op # "cancel"
            BY <5>2, NormalizedStored DEF Proposed
          <5> QED BY <5>1, <5>2
        <4>2. CASE Call[k].op = "create"
          BY <4>1, <4>2, <3>2, <2>3 DEF Written, Adds, Effect
        <4>3. CASE Call[k].op # "create"
          <5>1. Call[k].id \in ActiveRows
            BY <3>2, <4>3 DEF Matches
          <5> QED BY <4>1, <4>3, <5>1, <3>2, <2>3
                  DEF Written, Rewrites, Withdraws, Touches, Effect
        <4> QED BY <4>2, <4>3
      <3> QED BY <2>3, <3>1, <3>2 DEF ApplyNew
    <2> QED BY <1>1, <2>1, <2>2, <2>3 DEF ApplyAll
  <1>2. ASSUME NEW d \in Contents(Rules), Create(k, d, out)
        PROVE  Effect
    <2> DEFINE c == AtMidnight(Normalized(d))
    <2>1. c \in Contents(StoredRules)
      BY NormalizedStored, ColumnsStored
    <2>2. CASE UNCHANGED storeVars
      BY <2>2 DEF Effect, OnlyAnswers, storeVars
    <2>3. CASE /\ sources[k] = 0
               /\ \E i \in Holders(c) : sources' = [sources EXCEPT ![k] = i]
               /\ UNCHANGED <<events, receipts, changes, groupQueue, adminQueue>>
      <3>1. PICK i \in Holders(c) : sources' = [sources EXCEPT ![k] = i]
        BY <2>3
      <3>2. i \in DOMAIN events
        BY DEF Holders, Rows
      <3> QED BY <2>3, <3>1, <3>2 DEF Effect, OnlyAnswers
    <2>4. CASE /\ sources[k] = 0
               /\ Inserted(c)
               /\ Logged(k, Len(events) + 1, c)
               /\ sources' = [sources EXCEPT ![k] = Len(events) + 1]
               /\ UNCHANGED receipts
      BY <1>2, <2>1, <2>4 DEF Create, Adds, Effect
    <2> QED BY <1>2, <2>2, <2>3, <2>4 DEF Create
  <1>3. ASSUME NEW version, ExcludeOccurrence(k, version, out)
        PROVE  Effect
    <2> DEFINE id == Call[k].id
    <2>1. CASE UNCHANGED storeVars
      BY <2>1 DEF Effect, OnlyAnswers, storeVars
    <2>2. CASE /\ id \in DOMAIN events /\ events[id].status = "active"
               /\ Call[k].origin = "hermes" => sources[k] = 0
               /\ Excluded(k, id)
               /\ sources' = IF Call[k].origin = "hermes"
                             THEN [sources EXCEPT ![k] = id] ELSE sources
               /\ UNCHANGED receipts
      <3>1. CASE Call[k].date \in events[id].excluded
        BY <2>2, <3>1 DEF Excluded, Effect, OnlyAnswers
      <3>2. CASE Call[k].date \notin events[id].excluded
        BY <1>3, <2>2, <3>2 DEF Excluded, ExcludeOccurrence, LeavesOut, Effect
      <3> QED BY <3>1, <3>2
    <2> QED BY <1>3, <2>1, <2>2 DEF ExcludeOccurrence
  <1> QED BY <1>1, <1>2, <1>3

-----------------------------------------------------------------------------
(* What each effect does to the tables.                                    *)

Row(c, status, deleted, excluded) ==
    [content |-> Columns(c), key |-> Canonical(c), status |-> status,
     deleted |-> deleted, excluded |-> excluded]
LogEntry(k, id, c) ==
    [op |-> Call[k].op, id |-> id, content |-> AsJSON(c), date |-> Call[k].date,
     by |-> k]

\* A logged change is the last row of the log, and in the queue of its origin.
LEMMA LoggedFacts ==
    ASSUME StoreTypeOK, NEW k \in Keys, NEW id \in Nat,
           NEW c \in Contents(StoredRules), Logged(k, id, c)
    PROVE  /\ changes' \in Seq(Change)
           /\ Len(changes') = Len(changes) + 1
           /\ DOMAIN changes' = 1 .. Len(changes) + 1
           /\ \A n \in DOMAIN changes : changes'[n] = changes[n]
           /\ changes'[Len(changes) + 1] = LogEntry(k, id, c)
           /\ groupQueue' \subseteq DOMAIN changes'
           /\ adminQueue' \subseteq DOMAIN changes'
  <1>1. LogEntry(k, id, c) \in Change
    BY JSONStored, ScheduleAssumption DEF LogEntry, Change
  <1>2. changes \in Seq(Change)
    BY DEF StoreTypeOK
  <1>3. changes' = Append(changes, LogEntry(k, id, c))
    BY DEF Logged, LogEntry
  <1>4. /\ changes' \in Seq(Change)
        /\ Len(changes') = Len(changes) + 1
        /\ \A n \in 1 .. Len(changes) : changes'[n] = changes[n]
        /\ changes'[Len(changes) + 1] = LogEntry(k, id, c)
    <2> HIDE DEF LogEntry, Change
    <2> QED BY <1>1, <1>2, <1>3, AppendProperties
  <1>5. DOMAIN changes' = 1 .. Len(changes) + 1 /\ Len(changes) \in Nat
    BY <1>2, <1>4, LenProperties
  <1>6. groupQueue \subseteq 1 .. Len(changes) /\ adminQueue \subseteq 1 .. Len(changes)
    BY RowType DEF StoreTypeOK
  <1>7. groupQueue' \subseteq DOMAIN changes' /\ adminQueue' \subseteq DOMAIN changes'
    <2>1. Len(changes) + 1 \in DOMAIN changes' /\ 1 .. Len(changes) \subseteq DOMAIN changes'
      BY <1>5
    <2>2. groupQueue' \in {groupQueue, groupQueue \cup {Len(changes) + 1}}
      BY DEF Logged
    <2>3. adminQueue' \in {adminQueue, adminQueue \cup {Len(changes) + 1}}
      BY DEF Logged
    <2> QED BY <1>6, <2>1, <2>2, <2>3
  <1> QED BY <1>4, <1>5, <1>7, RowType

LEMMA InsertedFacts ==
    ASSUME StoreTypeOK, NEW c \in Contents(StoredRules), Inserted(c)
    PROVE  /\ events' \in Seq(Event)
           /\ Len(events') = Len(events) + 1
           /\ DOMAIN events' = 1 .. Len(events) + 1
           /\ \A i \in DOMAIN events : events'[i] = events[i]
           /\ events'[Len(events) + 1] = Row(c, "active", FALSE, {})
  <1> DEFINE row == Row(c, "active", FALSE, {})
  <1>1. row \in Event
    BY CanonicalType, ColumnsStored DEF Row, Event, Statuses
  <1>2. events \in Seq(Event)
    BY DEF StoreTypeOK
  <1>3. events' = Append(events, row)
    BY DEF Inserted, Row
  <1> HIDE DEF row
  <1>4. /\ events' \in Seq(Event)
        /\ Len(events') = Len(events) + 1
        /\ \A n \in 1 .. Len(events) : events'[n] = events[n]
        /\ events'[Len(events) + 1] = row
    BY ONLY <1>1, <1>2, <1>3, AppendProperties
  <1>5. DOMAIN events' = 1 .. Len(events) + 1
    BY <1>2, <1>4, LenProperties
  <1> QED BY <1>4, <1>5, RowType DEF row

LEMMA RewrittenFacts ==
    ASSUME StoreTypeOK, NEW c \in Contents(StoredRules), NEW id \in DOMAIN events,
           Rewritten(id, c)
    PROVE  /\ events' \in Seq(Event)
           /\ Len(events') = Len(events)
           /\ DOMAIN events' = DOMAIN events
           /\ events'[id] = Row(c, events[id].status, events[id].deleted,
                                events[id].excluded)
           /\ \A i \in DOMAIN events \ {id} :
                 events'[i] = IF i \in Holders(c)
                              THEN [events[i] EXCEPT !.status = "cancelled",
                                                     !.deleted = TRUE]
                              ELSE events[i]
  <1>1. DOMAIN events' = 1 .. Len(events) /\ Len(events) \in Nat
    BY RowType DEF Rewritten
  <1>2. events'[id] = Row(c, events[id].status, events[id].deleted, events[id].excluded)
    BY RowType DEF Rewritten, Row, Event
  <1>3. \A i \in DOMAIN events \ {id} :
           events'[i] = IF i \in Holders(c)
                        THEN [events[i] EXCEPT !.status = "cancelled", !.deleted = TRUE]
                        ELSE events[i]
    BY DEF Rewritten
  <1>4. ASSUME NEW i \in DOMAIN events PROVE events'[i] \in Event
    <2>1. CASE i = id
      <3>1. /\ events[id].status \in Statuses /\ events[id].deleted \in BOOLEAN
            /\ events[id].excluded \in SUBSET Dates
        BY RowType DEF Event
      <3>2. Canonical(c) \in Titles \X Places \X StoredRules
        BY CanonicalType
      <3>3. Columns(c) \in StoredContents
        BY ColumnsStored
      <3> QED BY <1>2, <2>1, <3>1, <3>2, <3>3 DEF Row, Event
    <2>2. CASE i # id
      <3>1. events[i] \in Event
        BY RowType
      <3>2. [events[i] EXCEPT !.status = "cancelled", !.deleted = TRUE] \in Event
        BY <3>1 DEF Event, Statuses
      <3> QED BY <1>3, <2>2, <3>1, <3>2
    <2> QED BY <2>1, <2>2
  <1>5. events' = [i \in 1 .. Len(events) |-> events'[i]]
    BY RowType DEF Rewritten
  <1>6. events' \in Seq(Event) /\ Len(events') = Len(events)
    <2>1. events' \in [1 .. Len(events) -> Event]
      BY <1>4, <1>5, RowType
    <2>2. events' \in Seq(Event)
      BY <1>1, <2>1, SeqDef
    <2> QED BY <1>1, <2>2, LenProperties
  <1> QED BY <1>1, <1>2, <1>3, <1>6, RowType

LEMMA CancelledFacts ==
    ASSUME StoreTypeOK, NEW id \in DOMAIN events, Cancelled(id)
    PROVE  /\ events' \in Seq(Event)
           /\ Len(events') = Len(events)
           /\ DOMAIN events' = DOMAIN events
           /\ events'[id] = [events[id] EXCEPT !.status = "cancelled"]
           /\ \A i \in DOMAIN events \ {id} : events'[i] = events[i]
  <1> DEFINE row == [events[id] EXCEPT !.status = "cancelled"]
  <1>1. row \in Event
    BY RowType DEF Event, Statuses
  <1>2. events \in Seq(Event) /\ id \in 1 .. Len(events)
    BY RowType DEF StoreTypeOK
  <1>3. events' = [events EXCEPT ![id] = row]
    BY DEF Cancelled
  <1> HIDE DEF row
  <1>4. /\ events' \in Seq(Event) /\ Len(events') = Len(events)
        /\ \A j \in 1 .. Len(events) : events'[j] = IF j = id THEN row ELSE events[j]
    BY ONLY <1>1, <1>2, <1>3, ExceptSeq
  <1>5. DOMAIN events' = DOMAIN events
    BY <1>3
  <1> QED BY <1>4, <1>5, RowType DEF row

LEMMA LeavesOutFacts ==
    ASSUME StoreTypeOK, NEW id \in DOMAIN events, NEW date \in Dates,
           events' = [events EXCEPT ![id].excluded = @ \cup {date}]
    PROVE  /\ events' \in Seq(Event)
           /\ Len(events') = Len(events)
           /\ DOMAIN events' = DOMAIN events
           /\ events'[id] = [events[id] EXCEPT !.excluded = @ \cup {date}]
           /\ \A i \in DOMAIN events \ {id} : events'[i] = events[i]
  <1> DEFINE row == [events[id] EXCEPT !.excluded = @ \cup {date}]
  <1>1. row \in Event
    BY RowType DEF Event
  <1>2. events \in Seq(Event) /\ id \in 1 .. Len(events)
    BY RowType DEF StoreTypeOK
  <1>3. events' = [events EXCEPT ![id] = row]
    OBVIOUS
  <1> HIDE DEF row
  <1>4. /\ events' \in Seq(Event) /\ Len(events') = Len(events)
        /\ \A j \in 1 .. Len(events) : events'[j] = IF j = id THEN row ELSE events[j]
    BY ONLY <1>1, <1>2, <1>3, ExceptSeq
  <1>5. DOMAIN events' = DOMAIN events
    BY <1>3
  <1> QED BY <1>4, <1>5, RowType DEF row

-----------------------------------------------------------------------------
(* The type invariant.                                                     *)

\* The receipts name rows that are there after the step.
LEMMA ReceiptTypeStep ==
    ASSUME StoreTypeOK, NEW k \in Keys, NEW n \in Nat, Len(events) <= n,
           NEW id \in 0 .. n
    PROVE  /\ sources \in [Keys -> 0 .. n] /\ receipts \in [Keys -> 0 .. n]
           /\ [sources EXCEPT ![k] = id] \in [Keys -> 0 .. n]
           /\ [receipts EXCEPT ![k] = id] \in [Keys -> 0 .. n]
  <1>1. 0 .. Len(events) \subseteq 0 .. n
    BY RowType
  <1> QED BY <1>1 DEF StoreTypeOK

\* What has been logged names events that are there, also when a row is added.
LEMMA LoggedTypeStep ==
    ASSUME StoreTypeOK, NEW k \in Keys, NEW id \in DOMAIN events',
           NEW c \in Contents(StoredRules), Logged(k, id, c),
           DOMAIN events \subseteq DOMAIN events', DOMAIN events' \subseteq Nat
    PROVE  /\ changes' \in Seq(Change)
           /\ \A n \in DOMAIN changes' : changes'[n].id \in DOMAIN events'
           /\ groupQueue' \subseteq DOMAIN changes'
           /\ adminQueue' \subseteq DOMAIN changes'
  <1>1. /\ changes' \in Seq(Change)
        /\ DOMAIN changes' = 1 .. Len(changes) + 1
        /\ \A n \in DOMAIN changes : changes'[n] = changes[n]
        /\ changes'[Len(changes) + 1] = LogEntry(k, id, c)
        /\ groupQueue' \subseteq DOMAIN changes'
        /\ adminQueue' \subseteq DOMAIN changes'
    BY LoggedFacts
  <1>2. ASSUME NEW n \in DOMAIN changes' PROVE changes'[n].id \in DOMAIN events'
    <2>1. CASE n \in DOMAIN changes
      BY <1>1, <2>1 DEF StoreTypeOK
    <2>2. CASE n = Len(changes) + 1
      BY <1>1, <2>2 DEF LogEntry
    <2> QED BY <1>1, <2>1, <2>2, RowType
  <1> QED BY <1>1, <1>2

LEMMA TypeStep ==
    ASSUME StoreTypeOK, Effect
    PROVE  StoreTypeOK'
  <1>1. ASSUME NEW k \in Keys, NEW c \in Contents(StoredRules), Adds(k, c)
        PROVE  StoreTypeOK'
    <2>1. /\ events' \in Seq(Event) /\ Len(events') = Len(events) + 1
          /\ DOMAIN events' = 1 .. Len(events) + 1
      BY <1>1, InsertedFacts DEF Adds
    <2>2. Len(events) \in Nat /\ DOMAIN events = 1 .. Len(events)
      BY RowType
    <2>3. /\ changes' \in Seq(Change)
          /\ \A n \in DOMAIN changes' : changes'[n].id \in DOMAIN events'
          /\ groupQueue' \subseteq DOMAIN changes' /\ adminQueue' \subseteq DOMAIN changes'
      <3>1. /\ Len(events) + 1 \in DOMAIN events'
            /\ DOMAIN events \subseteq DOMAIN events' /\ DOMAIN events' \subseteq Nat
        BY <2>1, <2>2
      <3> QED BY <1>1, <3>1, LoggedTypeStep DEF Adds
    <2>4. /\ sources' \in [Keys -> 0 .. Len(events')]
          /\ receipts' \in [Keys -> 0 .. Len(events')]
      <3>1. /\ Len(events) + 1 \in Nat /\ Len(events) <= Len(events) + 1
            /\ Len(events) + 1 \in 0 .. Len(events) + 1
        BY <2>2
      <3> QED BY <1>1, <2>1, <3>1, ReceiptTypeStep DEF Adds
    <2> QED BY <2>1, <2>3, <2>4 DEF StoreTypeOK
  <1>2. ASSUME NEW k \in Keys, NEW c \in Contents(StoredRules), Touches(k, c),
               events' \in Seq(Event), Len(events') = Len(events),
               DOMAIN events' = DOMAIN events
        PROVE  StoreTypeOK'
    <2>1. Call[k].id \in DOMAIN events'
      BY <1>2 DEF Touches, ActiveRows, Rows
    <2>2. /\ DOMAIN events' \subseteq Nat /\ DOMAIN events \subseteq DOMAIN events'
          /\ Len(events) \in Nat /\ Call[k].id \in 0 .. Len(events)
      BY <1>2, <2>1, RowType
    <2>3. /\ changes' \in Seq(Change)
          /\ \A n \in DOMAIN changes' : changes'[n].id \in DOMAIN events'
          /\ groupQueue' \subseteq DOMAIN changes' /\ adminQueue' \subseteq DOMAIN changes'
      BY <1>2, <2>1, <2>2, LoggedTypeStep DEF Touches
    <2>4. /\ sources' \in [Keys -> 0 .. Len(events')]
          /\ receipts' \in [Keys -> 0 .. Len(events')]
      <3>1. Len(events) <= Len(events)
        BY <2>2
      <3> QED BY <1>2, <2>2, <3>1, ReceiptTypeStep DEF Touches
    <2> QED BY <1>2, <2>3, <2>4 DEF StoreTypeOK
  <1>3. ASSUME NEW k \in Keys, NEW c \in Contents(StoredRules), Rewrites(k, c)
        PROVE  StoreTypeOK'
    <2>1. Call[k].id \in DOMAIN events
      BY <1>3 DEF Rewrites, Touches, ActiveRows, Rows
    <2> QED BY <1>2, <1>3, <2>1, RewrittenFacts DEF Rewrites
  <1>4. ASSUME NEW k \in Keys, NEW c \in Contents(StoredRules), Withdraws(k, c)
        PROVE  StoreTypeOK'
    <2>1. Call[k].id \in DOMAIN events
      BY <1>4 DEF Withdraws, Touches, ActiveRows, Rows
    <2> QED BY <1>2, <1>4, <2>1, CancelledFacts DEF Withdraws
  <1>5. ASSUME NEW k \in Keys, LeavesOut(k)
        PROVE  StoreTypeOK'
    <2> DEFINE id == Call[k].id
    <2>1. id \in DOMAIN events /\ Call[k].date \in Dates
      BY <1>5, ScheduleAssumption DEF LeavesOut
    <2>2. /\ events' \in Seq(Event) /\ Len(events') = Len(events)
          /\ DOMAIN events' = DOMAIN events
      BY <1>5, <2>1, LeavesOutFacts DEF LeavesOut
    <2>3. /\ DOMAIN events' \subseteq Nat /\ DOMAIN events \subseteq DOMAIN events'
          /\ Len(events) \in Nat /\ id \in 0 .. Len(events) /\ Len(events) <= Len(events)
      BY <2>1, <2>2, RowType
    <2>4. events[id].content \in Contents(StoredRules)
      BY <2>1, RowType DEF Event, StoredContents
    <2>5. /\ changes' \in Seq(Change)
          /\ \A n \in DOMAIN changes' : changes'[n].id \in DOMAIN events'
          /\ groupQueue' \subseteq DOMAIN changes' /\ adminQueue' \subseteq DOMAIN changes'
      BY <1>5, <2>1, <2>2, <2>3, <2>4, LoggedTypeStep DEF LeavesOut
    <2>6. /\ sources' \in [Keys -> 0 .. Len(events')]
          /\ receipts' \in [Keys -> 0 .. Len(events')]
      <3> DEFINE n == Len(events')
      <3>1. /\ n \in Nat /\ Len(events) <= n /\ id \in 0 .. n
        BY <2>2, <2>3
      <3> HIDE DEF n, id
      <3>2. /\ sources \in [Keys -> 0 .. n] /\ receipts \in [Keys -> 0 .. n]
            /\ [sources EXCEPT ![k] = id] \in [Keys -> 0 .. n]
        BY <3>1, ReceiptTypeStep
      <3>3. /\ sources' = sources \/ sources' = [sources EXCEPT ![k] = id]
            /\ receipts' = receipts
        BY <1>5 DEF LeavesOut, id
      <3> QED BY <3>2, <3>3 DEF n
    <2> QED BY <2>2, <2>5, <2>6 DEF StoreTypeOK
  <1>6. ASSUME OnlyAnswers PROVE StoreTypeOK'
    <2>1. ASSUME NEW k \in Keys, NEW i \in DOMAIN events
          PROVE  /\ [sources EXCEPT ![k] = i] \in [Keys -> 0 .. Len(events)]
                 /\ [receipts EXCEPT ![k] = sources[k]] \in [Keys -> 0 .. Len(events)]
      BY <2>1, RowType DEF StoreTypeOK
    <2>2. ASSUME NEW k \in Keys
          PROVE  [receipts EXCEPT ![k] = sources[k]] \in [Keys -> 0 .. Len(events)]
      BY DEF StoreTypeOK
    <2>3. /\ sources' \in [Keys -> 0 .. Len(events)]
          /\ receipts' \in [Keys -> 0 .. Len(events)]
      BY <1>6, <2>1, <2>2 DEF OnlyAnswers, StoreTypeOK
    <2> QED BY <1>6, <2>3 DEF OnlyAnswers, StoreTypeOK
  <1> QED BY <1>1, <1>3, <1>4, <1>5, <1>6 DEF Effect

LEMMA InitTypes == StoreInit => StoreTypeOK
  <1> SUFFICES ASSUME StoreInit PROVE StoreTypeOK
    OBVIOUS
  <1>1. \A S : <<>> \in Seq(S) /\ Len(<<>>) = 0
    BY EmptySeq
  <1>2. events \in Seq(Event) /\ changes \in Seq(Change) /\ Len(events) = 0
    BY <1>1 DEF StoreInit
  <1>3. changes = <<>>
    BY DEF StoreInit
  <1> QED BY <1>2, <1>3 DEF StoreInit, StoreTypeOK

LEMMA TypeInvariant == StoreSpec => []StoreTypeOK
  <1>1. StoreInit => StoreTypeOK
    BY InitTypes
  <1>2. StoreTypeOK /\ [StoreNext]_storeVars => StoreTypeOK'
    <2>1. StoreTypeOK /\ UNCHANGED storeVars => StoreTypeOK'
      BY DEF storeVars, StoreTypeOK
    <2> QED BY <2>1, StepHasEffect, TypeStep
  <1> QED BY <1>1, <1>2, PTL DEF StoreSpec

\* Whatever the callers ask for, in whatever order and however often, every
\* table keeps its type and no receipt, change or queue names a row that is
\* not there.
THEOREM TypeCorrect == StoreSpec => []StoreTypeOK
  BY TypeInvariant

-----------------------------------------------------------------------------
(* The inductive invariant.  Every row carries the key of its content, and  *)
(* the rows that are not withdrawn have different keys, the cancelled ones  *)
(* included.  Every change has its reason: the exclusion it logged is       *)
(* there, or its key has a source row, which keeps the key from being       *)
(* applied again.                                                           *)

KeysHeld ==
    \A i \in DOMAIN events :
        /\ events[i].key = Canonical(events[i].content)
        /\ events[i].deleted => events[i].status = "cancelled"

KeysUnique == \A i, j \in Rows : events[i].key = events[j].key => i = j

Explained(n) ==
    LET k == changes[n].by IN
    /\ changes[n].op = Call[k].op
    /\ IF Call[k].op = "exclude"
       THEN /\ Call[k].id \in DOMAIN events
            /\ Call[k].date \in events[Call[k].id].excluded
       ELSE sources[k] # 0

ChangesExplained == \A n \in DOMAIN changes : Explained(n)

StoreInv ==
    /\ StoreTypeOK
    /\ ReceiptsAgree
    /\ KeysHeld
    /\ KeysUnique
    /\ ChangesExplained
    /\ AppliedOnce
    /\ QueuesByOrigin

-----------------------------------------------------------------------------
(* Rows, receipts and changes under an effect.                             *)

\* The ids of the rows are numbers, and none is the 0 that stands for no row.
LEMMA EventIds ==
    ASSUME StoreTypeOK
    PROVE  \A i \in DOMAIN events : i # 0 /\ i \in Nat
  BY RowType

\* The two receipts of a mutation stay equal.
LEMMA ReceiptsStep ==
    ASSUME StoreTypeOK, ReceiptsAgree, Effect
    PROVE  ReceiptsAgree'
  <1>1. ASSUME NEW k \in Keys, NEW i, sources[k] = 0,
               sources' = [sources EXCEPT ![k] = i],
               receipts' \in {receipts, [receipts EXCEPT ![k] = i]}
        PROVE  ReceiptsAgree'
    <2>1. receipts[k] = 0
      BY <1>1 DEF ReceiptsAgree
    <2>2. DOMAIN sources = Keys /\ DOMAIN receipts = Keys
      BY DEF StoreTypeOK
    <2> QED BY <1>1, <2>1, <2>2 DEF ReceiptsAgree
  <1>2. ASSUME NEW k \in Keys, NEW c \in Contents(StoredRules),
               Adds(k, c) \/ Rewrites(k, c) \/ Withdraws(k, c)
        PROVE  ReceiptsAgree'
    BY <1>1, <1>2 DEF Adds, Rewrites, Withdraws, Touches
  <1>3. ASSUME NEW k \in Keys, LeavesOut(k) PROVE ReceiptsAgree'
    <2>1. CASE UNCHANGED sources
      BY <1>3, <2>1 DEF LeavesOut, ReceiptsAgree
    <2> QED BY <1>1, <1>3, <2>1 DEF LeavesOut
  <1>4. ASSUME OnlyAnswers PROVE ReceiptsAgree'
    <2>1. CASE UNCHANGED <<sources, receipts>>
      BY <2>1 DEF ReceiptsAgree
    <2>2. ASSUME NEW k \in Keys, receipts' = [receipts EXCEPT ![k] = sources[k]],
                 UNCHANGED sources
          PROVE  ReceiptsAgree'
      <3>1. DOMAIN receipts = Keys
        BY DEF StoreTypeOK
      <3> QED BY <2>2, <3>1 DEF ReceiptsAgree
    <2> QED BY <1>1, <1>4, <2>1, <2>2 DEF OnlyAnswers
  <1> QED BY <1>2, <1>3, <1>4 DEF Effect

\* Rows that keep their keys stay different.
LEMMA SameKeys ==
    ASSUME KeysUnique, DOMAIN events' = DOMAIN events,
           \A i \in DOMAIN events : /\ events'[i].key = events[i].key
                                    /\ events'[i].deleted = events[i].deleted
    PROVE  KeysUnique'
  <1>1. Rows' = Rows
    BY DEF Rows
  <1>2. \A i \in Rows : events'[i].key = events[i].key
    BY DEF Rows
  <1> QED BY <1>1, <1>2 DEF KeysUnique

LEMMA AddsKeys ==
    ASSUME StoreTypeOK, KeysHeld, KeysUnique, NEW c \in Contents(StoredRules),
           Inserted(c)
    PROVE  KeysHeld' /\ KeysUnique'
  <1> DEFINE new == Len(events) + 1
  <1>1. /\ DOMAIN events' = 1 .. new
        /\ \A i \in DOMAIN events : events'[i] = events[i]
        /\ events'[new] = Row(c, "active", FALSE, {})
    BY InsertedFacts
  <1>2. /\ DOMAIN events = 1 .. Len(events) /\ Len(events) \in Nat
        /\ DOMAIN events' = DOMAIN events \cup {new} /\ new \notin DOMAIN events
    BY <1>1, RowType
  <1> HIDE DEF new
  <1>3. /\ events'[new].key = Canonical(c) /\ ~events'[new].deleted
        /\ Canonical(events'[new].content) = Canonical(c)
    BY <1>1, ColumnsStored DEF Row
  <1>4. KeysHeld'
    BY <1>1, <1>2, <1>3 DEF KeysHeld
  <1>5. Rows' = Rows \cup {new}
    BY <1>1, <1>2, <1>3 DEF Rows
  <1>6. \A i \in Rows : events'[i] = events[i] /\ events[i].key # Canonical(c)
    BY <1>1 DEF Inserted, Holders, Rows
  <1>7. KeysUnique'
    <2> SUFFICES ASSUME NEW i \in Rows', NEW j \in Rows', events'[i].key = events'[j].key
                 PROVE  i = j
      BY DEF KeysUnique
    <2>1. CASE i \in Rows /\ j \in Rows
      BY <1>6, <2>1 DEF KeysUnique
    <2>2. CASE i = new /\ j \in Rows
      BY <1>3, <1>6, <2>2
    <2>3. CASE j = new /\ i \in Rows
      BY <1>3, <1>6, <2>3
    <2> QED BY <1>5, <2>1, <2>2, <2>3
  <1> QED BY <1>4, <1>7

\* What a rewriting leaves: its own row, and those of another identity.
LEMMA RewritesKeys ==
    ASSUME StoreTypeOK, KeysHeld, KeysUnique, NEW c \in Contents(StoredRules),
           NEW id \in ActiveRows, Rewritten(id, c)
    PROVE  KeysHeld' /\ KeysUnique'
  <1>1. id \in DOMAIN events /\ id \in Rows /\ ~events[id].deleted
    BY DEF ActiveRows, Rows
  <1>2. /\ DOMAIN events' = DOMAIN events
        /\ events'[id] = Row(c, events[id].status, events[id].deleted,
                             events[id].excluded)
        /\ \A i \in DOMAIN events \ {id} :
              events'[i] = IF i \in Holders(c)
                           THEN [events[i] EXCEPT !.status = "cancelled",
                                                  !.deleted = TRUE]
                           ELSE events[i]
    BY <1>1, RewrittenFacts
  <1>3. /\ events'[id].key = Canonical(c) /\ ~events'[id].deleted
        /\ Canonical(events'[id].content) = Canonical(c)
    <2>1. events'[id] = Row(c, events[id].status, events[id].deleted, events[id].excluded)
      BY <1>2
    <2>2. Canonical(Columns(c)) = Canonical(c)
      BY ColumnsStored
    <2> QED BY ONLY <1>1, <2>1, <2>2 DEF Row
  <1>4. ASSUME NEW i \in DOMAIN events, i # id, i \in Holders(c)
        PROVE  /\ events'[i].key = events[i].key /\ events'[i].content = events[i].content
               /\ events'[i].deleted /\ events'[i].status = "cancelled"
    <2>1. events'[i] = [events[i] EXCEPT !.status = "cancelled", !.deleted = TRUE]
      BY <1>2, <1>4
    <2>2. events[i] \in Event
      BY RowType
    <2> QED BY <2>1, <2>2 DEF Event
  <1>5. ASSUME NEW i \in DOMAIN events, i # id, i \notin Holders(c)
        PROVE  events'[i] = events[i]
    BY <1>2, <1>5
  <1>6. KeysHeld'
    <2> SUFFICES ASSUME NEW i \in DOMAIN events
                 PROVE  /\ events'[i].key = Canonical(events'[i].content)
                        /\ events'[i].deleted => events'[i].status = "cancelled"
      BY <1>2 DEF KeysHeld
    <2>1. CASE i = id
      BY <1>3, <2>1
    <2>2. CASE i # id /\ i \in Holders(c)
      BY <1>4, <2>2 DEF KeysHeld
    <2>3. CASE i # id /\ i \notin Holders(c)
      BY <1>5, <2>3 DEF KeysHeld
    <2> QED BY <2>1, <2>2, <2>3
  <1>7. ASSUME NEW i \in Rows', i # id
        PROVE  i \in Rows /\ events'[i] = events[i] /\ events[i].key # Canonical(c)
    <2>1. i \in DOMAIN events /\ ~events'[i].deleted
      BY <1>2 DEF Rows
    <2>2. i \notin Holders(c)
      BY <1>4, <1>7, <2>1
    <2>3. events'[i] = events[i]
      BY <1>5, <1>7, <2>1, <2>2
    <2> QED BY <2>1, <2>2, <2>3 DEF Rows, Holders
  <1>8. KeysUnique'
    <2> SUFFICES ASSUME NEW i \in Rows', NEW j \in Rows', events'[i].key = events'[j].key
                 PROVE  i = j
      BY DEF KeysUnique
    <2>1. CASE i # id /\ j # id
      BY <1>7, <2>1 DEF KeysUnique
    <2>2. CASE i = id /\ j # id
      BY <1>3, <1>7, <2>2
    <2>3. CASE j = id /\ i # id
      BY <1>3, <1>7, <2>3
    <2> QED BY <2>1, <2>2, <2>3
  <1> QED BY <1>6, <1>8

\* Each effect keeps the keys of the rows right, and different.
LEMMA KeysStep ==
    ASSUME StoreTypeOK, KeysHeld, KeysUnique, Effect
    PROVE  KeysHeld' /\ KeysUnique'
  <1>1. ASSUME NEW k \in Keys, NEW c \in Contents(StoredRules), Adds(k, c)
        PROVE  KeysHeld' /\ KeysUnique'
    BY <1>1, AddsKeys DEF Adds
  <1>2. ASSUME NEW k \in Keys, NEW c \in Contents(StoredRules), Rewrites(k, c)
        PROVE  KeysHeld' /\ KeysUnique'
    BY <1>2, RewritesKeys DEF Rewrites, Touches
  <1>3. ASSUME NEW id \in DOMAIN events, DOMAIN events' = DOMAIN events,
               events'[id].key = events[id].key, events'[id].content = events[id].content,
               events'[id].deleted = events[id].deleted,
               events'[id].status \in {events[id].status, "cancelled"},
               \A i \in DOMAIN events \ {id} : events'[i] = events[i]
        PROVE  KeysHeld' /\ KeysUnique'
    <2>1. \A i \in DOMAIN events : /\ events'[i].key = events[i].key
                                   /\ events'[i].content = events[i].content
                                   /\ events'[i].deleted = events[i].deleted
                                   /\ events'[i].status \in {events[i].status, "cancelled"}
      BY <1>3
    <2>2. KeysUnique'
      BY <1>3, <2>1, SameKeys
    <2>3. KeysHeld'
      BY <1>3, <2>1 DEF KeysHeld
    <2> QED BY <2>2, <2>3
  <1>4. ASSUME NEW k \in Keys, NEW c \in Contents(StoredRules), Withdraws(k, c)
        PROVE  KeysHeld' /\ KeysUnique'
    <2> DEFINE id == Call[k].id
    <2>1. id \in DOMAIN events
      BY <1>4 DEF Withdraws, Touches, ActiveRows, Rows
    <2>2. /\ DOMAIN events' = DOMAIN events
          /\ events'[id] = [events[id] EXCEPT !.status = "cancelled"]
          /\ \A i \in DOMAIN events \ {id} : events'[i] = events[i]
      BY <1>4, <2>1, CancelledFacts DEF Withdraws
    <2>3. events[id] \in Event
      BY <2>1, RowType
    <2>4. /\ events'[id].key = events[id].key /\ events'[id].content = events[id].content
          /\ events'[id].deleted = events[id].deleted /\ events'[id].status = "cancelled"
      BY <2>2, <2>3 DEF Event
    <2> QED BY <1>3, <2>1, <2>2, <2>4
  <1>5. ASSUME NEW k \in Keys, LeavesOut(k)
        PROVE  KeysHeld' /\ KeysUnique'
    <2> DEFINE id == Call[k].id
    <2>1. id \in DOMAIN events /\ Call[k].date \in Dates
      BY <1>5, ScheduleAssumption DEF LeavesOut
    <2>2. /\ DOMAIN events' = DOMAIN events
          /\ events'[id] = [events[id] EXCEPT !.excluded = @ \cup {Call[k].date}]
          /\ \A i \in DOMAIN events \ {id} : events'[i] = events[i]
      BY <1>5, <2>1, LeavesOutFacts DEF LeavesOut
    <2>3. events[id] \in Event
      BY <2>1, RowType
    <2>4. /\ events'[id].key = events[id].key /\ events'[id].content = events[id].content
          /\ events'[id].deleted = events[id].deleted
          /\ events'[id].status = events[id].status
      BY <2>2, <2>3 DEF Event
    <2> QED BY <1>3, <2>1, <2>2, <2>4
  <1>6. ASSUME OnlyAnswers PROVE KeysHeld' /\ KeysUnique'
    BY <1>6 DEF OnlyAnswers, KeysHeld, KeysUnique, Rows
  <1> QED BY <1>1, <1>2, <1>4, <1>5, <1>6 DEF Effect
\* What has been logged under k for the first time keeps the log right.
LEMMA LogStep ==
    ASSUME StoreTypeOK, AppliedOnce, QueuesByOrigin,
           NEW k \in Keys, NEW id \in Nat, NEW c \in Contents(StoredRules),
           Logged(k, id, c), \A n \in DOMAIN changes : changes[n].by # k
    PROVE  AppliedOnce' /\ QueuesByOrigin'
  <1> DEFINE new == Len(changes) + 1
  <1>1. /\ DOMAIN changes' = 1 .. new
        /\ \A n \in DOMAIN changes : changes'[n] = changes[n]
        /\ changes'[new] = LogEntry(k, id, c)
    BY LoggedFacts
  <1>2. DOMAIN changes' = DOMAIN changes \cup {new} /\ new \notin DOMAIN changes
    BY <1>1, RowType
  <1>3. /\ groupQueue' = IF Call[k].origin = "agent"
                         THEN groupQueue \cup {new} ELSE groupQueue
        /\ adminQueue' = IF Call[k].origin = "hermes"
                         THEN adminQueue \cup {new} ELSE adminQueue
    BY DEF Logged
  <1>4. groupQueue \subseteq DOMAIN changes /\ adminQueue \subseteq DOMAIN changes
    BY DEF StoreTypeOK
  <1> HIDE DEF new
  <1>5. changes'[new].by = k
    BY <1>1 DEF LogEntry
  <1>6. AppliedOnce'
    BY <1>1, <1>2, <1>5 DEF AppliedOnce
  <1>7. Call[k].origin \in {"agent", "hermes"}
    BY ScheduleAssumption
  <1>8. QueuesByOrigin'
    <2> SUFFICES ASSUME NEW n \in DOMAIN changes'
                 PROVE  /\ n \in adminQueue' <=> Call[changes'[n].by].origin = "hermes"
                        /\ n \in groupQueue' <=> Call[changes'[n].by].origin = "agent"
      BY DEF QueuesByOrigin
    <2>1. CASE n = new
      BY <1>2, <1>3, <1>4, <1>5, <1>7, <2>1
    <2>2. CASE n \in DOMAIN changes
      <3>1. changes'[n] = changes[n] /\ n # new
        BY <1>1, <1>2, <2>2
      <3>2. (n \in groupQueue' <=> n \in groupQueue) /\ (n \in adminQueue' <=> n \in adminQueue)
        BY <1>3, <3>1
      <3> QED BY <2>2, <3>1, <3>2 DEF QueuesByOrigin
    <2> QED BY <1>2, <2>1, <2>2
  <1> QED BY <1>6, <1>8

\* An explanation lasts: no event goes, no exclusion is taken back, and no
\* source row goes.
LEMMA ExplanationLasts ==
    ASSUME StoreTypeOK, NEW n \in DOMAIN changes, Explained(n),
           changes'[n] = changes[n],
           DOMAIN events \subseteq DOMAIN events',
           \A i \in DOMAIN events : events[i].excluded \subseteq events'[i].excluded,
           \A k \in Keys : sources[k] # 0 => sources'[k] # 0
    PROVE  Explained(n)'
  <1>1. changes[n].by \in Keys
    BY RowType DEF Change
  <1> QED BY <1>1 DEF Explained

\* What a step does to exclusions: nothing but add one.
LEMMA ExclusionsStay ==
    ASSUME StoreTypeOK, Effect
    PROVE  /\ DOMAIN events \subseteq DOMAIN events'
           /\ \A i \in DOMAIN events : events[i].excluded \subseteq events'[i].excluded
  <1>1. ASSUME NEW k \in Keys, NEW c \in Contents(StoredRules), Adds(k, c)
        PROVE  /\ DOMAIN events \subseteq DOMAIN events'
               /\ \A i \in DOMAIN events : events'[i] = events[i]
    <2>1. DOMAIN events' = 1 .. Len(events) + 1 /\ \A i \in DOMAIN events : events'[i] = events[i]
      BY <1>1, InsertedFacts DEF Adds
    <2> QED BY <2>1, RowType
  <1>2. ASSUME NEW k \in Keys, NEW c \in Contents(StoredRules), Rewrites(k, c)
        PROVE  /\ DOMAIN events' = DOMAIN events
               /\ \A i \in DOMAIN events : events'[i].excluded = events[i].excluded
    <2> DEFINE id == Call[k].id
    <2>1. id \in DOMAIN events
      BY <1>2 DEF Rewrites, Touches, ActiveRows, Rows
    <2>2. /\ DOMAIN events' = DOMAIN events
          /\ events'[id] = Row(c, events[id].status, events[id].deleted,
                               events[id].excluded)
          /\ \A i \in DOMAIN events \ {id} :
                events'[i] = IF i \in Holders(c)
                             THEN [events[i] EXCEPT !.status = "cancelled",
                                                    !.deleted = TRUE]
                             ELSE events[i]
      BY <1>2, <2>1, RewrittenFacts DEF Rewrites
    <2>3. events'[id].excluded = events[id].excluded
      <3>1. events'[id] = Row(c, events[id].status, events[id].deleted,
                              events[id].excluded)
        BY <2>2
      <3> QED BY ONLY <3>1 DEF Row
    <2>4. ASSUME NEW i \in DOMAIN events, i # id
          PROVE  events'[i].excluded = events[i].excluded
      <3>1. events[i] \in Event
        BY RowType
      <3>2. [events[i] EXCEPT !.status = "cancelled", !.deleted = TRUE].excluded
              = events[i].excluded
        BY <3>1 DEF Event
      <3> QED BY <2>2, <2>4, <3>2
    <2> QED BY <2>2, <2>3, <2>4
  <1>3. ASSUME NEW k \in Keys, NEW c \in Contents(StoredRules), Withdraws(k, c)
        PROVE  /\ DOMAIN events' = DOMAIN events
               /\ \A i \in DOMAIN events : events'[i].excluded = events[i].excluded
    <2> DEFINE id == Call[k].id
    <2>1. id \in DOMAIN events
      BY <1>3 DEF Withdraws, Touches, ActiveRows, Rows
    <2>2. /\ DOMAIN events' = DOMAIN events
          /\ events'[id] = [events[id] EXCEPT !.status = "cancelled"]
          /\ \A i \in DOMAIN events \ {id} : events'[i] = events[i]
      BY <1>3, <2>1, CancelledFacts DEF Withdraws
    <2>3. events[id] \in Event
      BY <2>1, RowType
    <2>4. events'[id].excluded = events[id].excluded
      BY <2>2, <2>3 DEF Event
    <2> QED BY <2>2, <2>4
  <1>4. ASSUME NEW k \in Keys, LeavesOut(k)
        PROVE  /\ DOMAIN events' = DOMAIN events
               /\ \A i \in DOMAIN events : events[i].excluded \subseteq events'[i].excluded
    <2> DEFINE id == Call[k].id
    <2>1. id \in DOMAIN events /\ Call[k].date \in Dates
      BY <1>4, ScheduleAssumption DEF LeavesOut
    <2>2. /\ DOMAIN events' = DOMAIN events
          /\ events'[id] = [events[id] EXCEPT !.excluded = @ \cup {Call[k].date}]
          /\ \A i \in DOMAIN events \ {id} : events'[i] = events[i]
      BY <1>4, <2>1, LeavesOutFacts DEF LeavesOut
    <2>3. events[id] \in Event
      BY <2>1, RowType
    <2>4. events'[id].excluded = events[id].excluded \cup {Call[k].date}
      BY <2>2, <2>3 DEF Event
    <2> QED BY <2>2, <2>4
  <1>5. ASSUME OnlyAnswers PROVE events' = events
    BY <1>5 DEF OnlyAnswers
  <1> QED BY <1>1, <1>2, <1>3, <1>4, <1>5 DEF Effect

\* No key loses its source row.
LEMMA SourcesStay ==
    ASSUME StoreTypeOK, Effect
    PROVE  \A k \in Keys : sources[k] # 0 => sources'[k] # 0
  <1>1. DOMAIN sources = Keys /\ \A i \in DOMAIN events : i # 0
    BY RowType DEF StoreTypeOK
  <1>2. Len(events) + 1 # 0
    BY RowType
  <1>3. \/ UNCHANGED sources
        \/ \E k \in Keys, i \in DOMAIN events \cup {Len(events) + 1} :
              sources[k] = 0 /\ sources' = [sources EXCEPT ![k] = i]
    BY DEF Effect, Adds, Rewrites, Withdraws, Touches, LeavesOut, OnlyAnswers,
           ActiveRows, Rows
  <1> QED BY <1>1, <1>2, <1>3

\* A key whose mutation still applies has not been logged before.
LEMMA FreshKey ==
    ASSUME StoreTypeOK, ChangesExplained, NEW k \in Keys,
           \/ Call[k].op # "exclude" /\ sources[k] = 0
           \/ /\ Call[k].op = "exclude"
              /\ Call[k].date \notin events[Call[k].id].excluded
    PROVE  \A n \in DOMAIN changes : changes[n].by # k
  BY DEF ChangesExplained, Explained

\* Each effect keeps every change explained, applied once, and in its queue.
LEMMA ChangesStep ==
    ASSUME StoreTypeOK, ChangesExplained, AppliedOnce, QueuesByOrigin, Effect
    PROVE  ChangesExplained' /\ AppliedOnce' /\ QueuesByOrigin'
  <1>1. /\ DOMAIN events \subseteq DOMAIN events'
        /\ \A i \in DOMAIN events : events[i].excluded \subseteq events'[i].excluded
        /\ \A k \in Keys : sources[k] # 0 => sources'[k] # 0
    BY ExclusionsStay, SourcesStay
  <1>2. ASSUME NEW k \in Keys, NEW id \in Nat, NEW c \in Contents(StoredRules),
               Logged(k, id, c),
               \A n \in DOMAIN changes : changes[n].by # k,
               IF Call[k].op = "exclude"
               THEN /\ Call[k].id \in DOMAIN events'
                    /\ Call[k].date \in events'[Call[k].id].excluded
               ELSE sources'[k] # 0
        PROVE  ChangesExplained' /\ AppliedOnce' /\ QueuesByOrigin'
    <2>1. /\ DOMAIN changes' = 1 .. Len(changes) + 1
          /\ DOMAIN changes = 1 .. Len(changes) /\ Len(changes) \in Nat
          /\ \A n \in DOMAIN changes : changes'[n] = changes[n]
          /\ changes'[Len(changes) + 1] = LogEntry(k, id, c)
      BY <1>2, LoggedFacts, RowType
    <2>2. AppliedOnce' /\ QueuesByOrigin'
      BY <1>2, LogStep
    <2>3. ASSUME NEW n \in DOMAIN changes' PROVE Explained(n)'
      <3>1. CASE n \in DOMAIN changes
        BY <1>1, <2>1, <3>1, ExplanationLasts DEF ChangesExplained
      <3>2. CASE n = Len(changes) + 1
        <4>1. changes'[n].by = k /\ changes'[n].op = Call[k].op
          BY <2>1, <3>2 DEF LogEntry
        <4> QED BY <1>2, <4>1 DEF Explained
      <3> QED BY <2>1, <3>1, <3>2
    <2> QED BY <2>2, <2>3 DEF ChangesExplained
  <1>3. ASSUME NEW k \in Keys, NEW c \in Contents(StoredRules), Adds(k, c)
        PROVE  ChangesExplained' /\ AppliedOnce' /\ QueuesByOrigin'
    <2>1. Len(events) + 1 \in Nat /\ Len(events) + 1 # 0
      BY RowType
    <2>2. Call[k].op # "exclude" /\ sources[k] = 0 /\ Logged(k, Len(events) + 1, c)
      BY <1>3 DEF Adds
    <2>3. sources'[k] # 0
      BY <1>3, <2>1 DEF Adds, StoreTypeOK
    <2>4. \A n \in DOMAIN changes : changes[n].by # k
      BY <2>2, FreshKey
    <2> QED BY <1>2, <2>1, <2>2, <2>3, <2>4
  <1>4. ASSUME NEW k \in Keys, NEW c \in Contents(StoredRules), Touches(k, c),
               Call[k].op # "exclude"
        PROVE  ChangesExplained' /\ AppliedOnce' /\ QueuesByOrigin'
    <2>1. Call[k].id \in Nat /\ Call[k].id # 0
      BY <1>4, EventIds DEF Touches, ActiveRows, Rows
    <2>2. sources[k] = 0 /\ Logged(k, Call[k].id, c)
      BY <1>4 DEF Touches
    <2>3. sources'[k] # 0
      BY <1>4, <2>1 DEF Touches, StoreTypeOK
    <2>4. \A n \in DOMAIN changes : changes[n].by # k
      BY <1>4, <2>2, FreshKey
    <2> QED BY <1>2, <1>4, <2>1, <2>2, <2>3, <2>4
  <1>5. ASSUME NEW k \in Keys, LeavesOut(k)
        PROVE  ChangesExplained' /\ AppliedOnce' /\ QueuesByOrigin'
    <2> DEFINE id == Call[k].id
    <2>1. id \in DOMAIN events /\ id \in Nat /\ Call[k].date \in Dates
      BY <1>5, EventIds, ScheduleAssumption DEF LeavesOut
    <2>2. events[id] \in Event /\ events[id].content \in Contents(StoredRules)
      BY <2>1, RowType DEF Event, StoredContents
    <2>3. /\ DOMAIN events' = DOMAIN events
          /\ events'[id] = [events[id] EXCEPT !.excluded = @ \cup {Call[k].date}]
      BY <1>5, <2>1, LeavesOutFacts DEF LeavesOut
    <2>4. Call[k].date \in events'[id].excluded
      BY <2>2, <2>3 DEF Event
    <2>5. \A n \in DOMAIN changes : changes[n].by # k
      BY <1>5, FreshKey DEF LeavesOut
    <2>6. Logged(k, id, events[id].content) /\ Call[k].op = "exclude"
      BY <1>5 DEF LeavesOut
    <2> QED BY <1>2, <2>1, <2>2, <2>3, <2>4, <2>5, <2>6
  <1>6. ASSUME OnlyAnswers
        PROVE  ChangesExplained' /\ AppliedOnce' /\ QueuesByOrigin'
    <2>1. changes' = changes /\ groupQueue' = groupQueue /\ adminQueue' = adminQueue
      BY <1>6 DEF OnlyAnswers
    <2>2. ChangesExplained'
      BY <1>1, <2>1, ExplanationLasts DEF ChangesExplained
    <2> QED BY <2>1, <2>2 DEF AppliedOnce, QueuesByOrigin
  <1> QED BY <1>3, <1>4, <1>5, <1>6 DEF Effect, Rewrites, Withdraws

-----------------------------------------------------------------------------
(* The invariant, and what follows from it.                                *)

LEMMA StoreInvariant == StoreSpec => []StoreInv
  <1>1. StoreInit => ReceiptsAgree /\ KeysHeld /\ KeysUnique /\ ChangesExplained
                     /\ AppliedOnce /\ QueuesByOrigin
    BY DEF StoreInit, ReceiptsAgree, KeysHeld, KeysUnique, Rows, ChangesExplained,
           AppliedOnce, QueuesByOrigin
  <1>2. StoreTypeOK /\ ReceiptsAgree /\ KeysHeld /\ KeysUnique /\ ChangesExplained
        /\ AppliedOnce /\ QueuesByOrigin /\ [StoreNext]_storeVars
        => (ReceiptsAgree /\ KeysHeld /\ KeysUnique /\ ChangesExplained
            /\ AppliedOnce /\ QueuesByOrigin)'
    <2>1. CASE StoreNext
      BY <2>1, StepHasEffect, ReceiptsStep, KeysStep, ChangesStep
    <2>2. CASE UNCHANGED storeVars
      BY <2>2 DEF storeVars, ReceiptsAgree, KeysHeld, KeysUnique, Rows, ChangesExplained,
                  Explained, AppliedOnce, QueuesByOrigin
    <2> QED BY <2>1, <2>2
  <1> QED BY <1>1, <1>2, TypeInvariant, PTL DEF StoreSpec, StoreInv

\* No two active events of the schedule are the same event, however creations,
\* renames onto existing events, cancellations and retries are mixed.
THEOREM ScheduleShowsEachEventOnce == StoreSpec => []OneEventPerIdentity
  <1>1. StoreInv => OneEventPerIdentity
    BY DEF StoreInv, OneEventPerIdentity, KeysHeld, KeysUnique, ActiveRows, Rows
  <1> QED BY <1>1, StoreInvariant, PTL

\* No mutation is applied twice, by whichever transaction it is retried.
THEOREM MutationsApplyOnce == StoreSpec => []AppliedOnce
  BY StoreInvariant, PTL DEF StoreInv

\* agent_mutations and event_sources never answer differently for a key.
THEOREM ReceiptsNeverDisagree == StoreSpec => []ReceiptsAgree
  BY StoreInvariant, PTL DEF StoreInv

\* Every change is in the queue of its origin, and in no other.
THEOREM ChangesReachTheirQueue == StoreSpec => []QueuesByOrigin
  BY StoreInvariant, PTL DEF StoreInv

-----------------------------------------------------------------------------
(* The change log explains the schedule.  LastChange is a choice among      *)
(* the changes of an event; the invariant names a change that is the last   *)
(* one instead, and from which the event can be told.                       *)

Shapes(n, i) == changes[n].id = i /\ changes[n].op # "exclude"

IsLast(n, i) ==
    /\ n \in DOMAIN changes /\ Shapes(n, i)
    /\ \A m \in DOMAIN changes : Shapes(m, i) => m <= n

Replaced(n, i) ==
    \E m \in DOMAIN changes :
        /\ m > n
        /\ changes[m].op = "update" /\ changes[m].id # i
        /\ Canonical(changes[m].content) = Canonical(AsJSON(events[i].content))

Tells(n, i) ==
    IF events[i].deleted THEN Replaced(n, i)
    ELSE /\ changes[n].op = "cancel" <=> events[i].status = "cancelled"
         /\ changes[n].op # "cancel" => Columns(changes[n].content) = AsJSON(events[i].content)

EventsTold == \A i \in DOMAIN events : \E n \in DOMAIN changes : IsLast(n, i) /\ Tells(n, i)

\* There is only one last change.
LEMMA LastChangeIs ==
    ASSUME StoreTypeOK, NEW i, NEW n, IsLast(n, i)
    PROVE  LastChange(i) = n
  <1> DEFINE about == {m \in DOMAIN changes : changes[m].id = i /\ changes[m].op # "exclude"}
  <1>1. n \in about /\ \A m \in about : m <= n
    BY DEF IsLast, Shapes
  <1>2. about \subseteq Nat
    BY RowType
  <1>3. LastChange(i) = CHOOSE m \in about : \A l \in about : l <= m
    BY DEF LastChange
  <1> HIDE DEF about
  <1>4. \A m \in about : (\A l \in about : l <= m) => m = n
    BY <1>1, <1>2
  <1> QED BY <1>1, <1>3, <1>4

\* What the log gains: one row, after the others.
LogGains(k, id, c) ==
    /\ Len(changes) + 1 \in DOMAIN changes' /\ Len(changes) + 1 \in Nat
    /\ DOMAIN changes' = DOMAIN changes \cup {Len(changes) + 1}
    /\ \A m \in DOMAIN changes : m < Len(changes) + 1 /\ m \in Nat /\ changes'[m] = changes[m]
    /\ changes'[Len(changes) + 1].op = Call[k].op
    /\ changes'[Len(changes) + 1].id = id
    /\ changes'[Len(changes) + 1].content = AsJSON(c)

LEMMA LoggedGains ==
    ASSUME StoreTypeOK, NEW k \in Keys, NEW id \in Nat,
           NEW c \in Contents(StoredRules), Logged(k, id, c)
    PROVE  LogGains(k, id, c)
  <1>1. /\ DOMAIN changes' = 1 .. Len(changes) + 1
        /\ \A m \in DOMAIN changes : changes'[m] = changes[m]
        /\ changes'[Len(changes) + 1] = LogEntry(k, id, c)
    BY LoggedFacts
  <1>2. DOMAIN changes = 1 .. Len(changes) /\ Len(changes) \in Nat
    BY RowType
  <1> QED BY <1>1, <1>2 DEF LogGains, LogEntry

\* A change of another event, or of an occurrence, leaves the last one.
LEMMA LastStays ==
    ASSUME NEW k, NEW id, NEW c, LogGains(k, id, c), NEW i, NEW n, IsLast(n, i),
           id # i \/ Call[k].op = "exclude"
    PROVE  IsLast(n, i)'
  BY DEF LogGains, IsLast, Shapes

\* The newest change is the last of its event.
LEMMA LastIsNew ==
    ASSUME NEW k, NEW id, NEW c, LogGains(k, id, c), Call[k].op # "exclude",
           NEW new, new = Len(changes) + 1
    PROVE  IsLast(new, id)'
  BY DEF LogGains, IsLast, Shapes

\* What is told of an event that is left alone is still told.
LEMMA StillTold ==
    ASSUME NEW k, NEW id, NEW c, LogGains(k, id, c), NEW i, NEW n \in DOMAIN changes,
           Tells(n, i),
           events'[i].content = events[i].content, events'[i].status = events[i].status,
           events'[i].deleted = events[i].deleted
    PROVE  Tells(n, i)'
  <1>1. changes'[n] = changes[n]
    BY DEF LogGains
  <1>2. \A m \in DOMAIN changes : m \in DOMAIN changes' /\ changes'[m] = changes[m]
    BY DEF LogGains
  <1>3. Replaced(n, i) => Replaced(n, i)'
    BY <1>2 DEF Replaced
  <1> QED BY <1>1, <1>3 DEF Tells

\* A step that logs a change of event id, or of an occurrence, and leaves the
\* other events alone or withdraws them for it.
LEMMA ToldStep ==
    ASSUME StoreTypeOK, EventsTold, NEW k \in Keys, NEW id \in Nat,
           NEW c \in Contents(StoredRules), LogGains(k, id, c),
           Call[k].op # "exclude", NEW new, new = Len(changes) + 1,
           DOMAIN events' = DOMAIN events \cup {id}, Tells(new, id)',
           \A i \in DOMAIN events \ {id} :
              \/ /\ events'[i].content = events[i].content
                 /\ events'[i].status = events[i].status
                 /\ events'[i].deleted = events[i].deleted
              \/ /\ Call[k].op = "update" /\ events'[i].deleted
                 /\ Canonical(AsJSON(events'[i].content)) = Canonical(AsJSON(c))
    PROVE  EventsTold'
  <1>1. new \in DOMAIN changes' /\ DOMAIN changes \subseteq DOMAIN changes'
    BY DEF LogGains
  <1> SUFFICES ASSUME NEW i \in DOMAIN events'
               PROVE  \E n \in DOMAIN changes' : IsLast(n, i)' /\ Tells(n, i)'
    BY DEF EventsTold
  <1>2. CASE i = id
    BY <1>1, <1>2, LastIsNew
  <1>3. CASE i # id
    <2>1. i \in DOMAIN events
      BY <1>3
    <2>2. PICK n \in DOMAIN changes : IsLast(n, i) /\ Tells(n, i)
      BY <2>1 DEF EventsTold
    <2>3. IsLast(n, i)'
      BY <1>3, <2>2, LastStays
    <2>4. CASE /\ events'[i].content = events[i].content
               /\ events'[i].status = events[i].status
               /\ events'[i].deleted = events[i].deleted
      BY <1>1, <2>2, <2>3, <2>4, StillTold
    <2>5. CASE /\ Call[k].op = "update" /\ events'[i].deleted
               /\ Canonical(AsJSON(events'[i].content)) = Canonical(AsJSON(c))
      <3>1. /\ new \in DOMAIN changes' /\ new > n
            /\ changes'[new].op = "update" /\ changes'[new].id # i
            /\ changes'[new].content = AsJSON(c)
        BY <1>3, <2>5 DEF LogGains
      <3>2. Replaced(n, i)'
        BY <2>5, <3>1 DEF Replaced
      <3> QED BY <1>1, <2>3, <2>5, <3>2 DEF Tells
    <2> QED BY <1>3, <2>1, <2>4, <2>5
  <1> QED BY <1>2, <1>3

\* Contents with one identity have one as JSON, too.
LEMMA SameAsJSON ==
    ASSUME NEW c \in Contents(StoredRules), NEW d \in Contents(StoredRules),
           Canonical(c) = Canonical(d)
    PROVE  Canonical(AsJSON(c)) = Canonical(AsJSON(d))
  <1>1. c.title = d.title /\ c.place = d.place /\ c.rule = d.rule
    BY DEF Canonical
  <1>2. /\ AsJSON(c).title = c.title /\ AsJSON(c).place = c.place
        /\ AsJSON(d).title = d.title /\ AsJSON(d).place = d.place
        /\ AsJSON(c).rule = AsJSON(d).rule
    BY <1>1 DEF AsJSON, Contents
  <1> QED BY <1>1, <1>2 DEF Canonical

\* Each effect keeps the events told by the log.
LEMMA EventsToldStep ==
    ASSUME StoreTypeOK, KeysHeld, EventsTold, Effect
    PROVE  EventsTold'
  <1>1. ASSUME NEW k \in Keys, NEW c \in Contents(StoredRules), Adds(k, c)
        PROVE  EventsTold'
    <2> DEFINE id == Len(events) + 1
               new == Len(changes) + 1
    <2>1. id \in Nat /\ Logged(k, id, c) /\ Call[k].op = "create"
      BY <1>1, RowType DEF Adds
    <2>2. LogGains(k, id, c)
      BY <2>1, LoggedGains
    <2>3. /\ DOMAIN events' = DOMAIN events \cup {id}
          /\ \A i \in DOMAIN events : events'[i] = events[i]
          /\ events'[id] = Row(c, "active", FALSE, {})
      <3>1. /\ DOMAIN events' = 1 .. Len(events) + 1
            /\ \A i \in DOMAIN events : events'[i] = events[i]
            /\ events'[Len(events) + 1] = Row(c, "active", FALSE, {})
        BY <1>1, InsertedFacts DEF Adds
      <3>2. DOMAIN events = 1 .. Len(events) /\ Len(events) \in Nat
        BY RowType
      <3>3. DOMAIN events' = DOMAIN events \cup {id}
        BY ONLY <3>1, <3>2
      <3> QED BY ONLY <3>1, <3>3
    <2>4. changes'[new].op = "create" /\ changes'[new].content = AsJSON(c)
      BY <2>1, <2>2 DEF LogGains
    <2>5. /\ ~events'[id].deleted /\ events'[id].status = "active"
          /\ Columns(AsJSON(c)) = AsJSON(events'[id].content)
      BY <2>3, ColumnsStored DEF Row
    <2> HIDE DEF id, new
    <2>6. ASSUME NEW n, NEW j, n = new, j = id PROVE Tells(n, j)'
      BY <2>4, <2>5, <2>6 DEF Tells
    <2>7. ASSUME NEW n, NEW j \in Nat, n = new, j = id PROVE EventsTold'
      <3>1. Tells(n, j)'
        BY <2>6, <2>7
      <3>2. n = Len(changes) + 1
        BY <2>7 DEF new
      <3> QED BY <2>1, <2>2, <2>3, <2>7, <3>1, <3>2, ToldStep
    <2> QED BY <2>1, <2>7
  <1>2. ASSUME NEW k \in Keys, NEW c \in Contents(StoredRules), Rewrites(k, c)
        PROVE  EventsTold'
    <2> DEFINE id == Call[k].id
    <2>1. /\ id \in DOMAIN events /\ id \in Nat /\ Call[k].op = "update"
          /\ ~events[id].deleted /\ events[id].status = "active" /\ Logged(k, id, c)
      BY <1>2, RowType DEF Rewrites, Touches, ActiveRows, Rows
    <2>2. LogGains(k, id, c)
      BY <2>1, LoggedGains
    <2>3. /\ DOMAIN events' = DOMAIN events
          /\ events'[id] = Row(c, events[id].status, events[id].deleted,
                               events[id].excluded)
          /\ \A i \in DOMAIN events \ {id} :
                events'[i] = IF i \in Holders(c)
                             THEN [events[i] EXCEPT !.status = "cancelled",
                                                    !.deleted = TRUE]
                             ELSE events[i]
      BY <1>2, <2>1, RewrittenFacts DEF Rewrites
    <2>4. PICK new : new = Len(changes) + 1
      OBVIOUS
    <2>5. changes'[new].op = "update" /\ changes'[new].content = AsJSON(c)
      BY <2>1, <2>2, <2>4 DEF LogGains
    <2>6. /\ ~events'[id].deleted /\ events'[id].status = "active"
          /\ Columns(AsJSON(c)) = AsJSON(events'[id].content)
      <3>1. events'[id] = Row(c, events[id].status, events[id].deleted,
                              events[id].excluded)
        BY <2>3
      <3>2. Columns(AsJSON(c)) = AsJSON(Columns(c))
        BY ColumnsStored
      <3> QED BY ONLY <2>1, <3>1, <3>2 DEF Row
    <2>7. Tells(new, id)'
      BY <2>5, <2>6 DEF Tells
    <2>8. ASSUME NEW i \in DOMAIN events \ {id}, i \in Holders(c)
          PROVE  /\ events'[i].deleted
                 /\ Canonical(AsJSON(events'[i].content)) = Canonical(AsJSON(c))
      <3>1. events[i] \in Event /\ events[i].content \in Contents(StoredRules)
        BY RowType DEF Event, StoredContents
      <3>2. events'[i] = [events[i] EXCEPT !.status = "cancelled", !.deleted = TRUE]
        BY <2>3, <2>8
      <3>3. events'[i].deleted /\ events'[i].content = events[i].content
        BY <3>1, <3>2 DEF Event
      <3>4. Canonical(events[i].content) = Canonical(c)
        BY <2>8 DEF Holders, KeysHeld
      <3> QED BY <3>1, <3>3, <3>4, SameAsJSON
    <2>9. ASSUME NEW i \in DOMAIN events \ {id}, i \notin Holders(c)
          PROVE  events'[i] = events[i]
      BY <2>3, <2>9
    <2>10. DOMAIN events' = DOMAIN events \cup {id}
      BY <2>1, <2>3
    <2> HIDE DEF id
    <2> QED BY <2>1, <2>2, <2>4, <2>7, <2>8, <2>9, <2>10, ToldStep
  <1>3. ASSUME NEW k \in Keys, NEW c \in Contents(StoredRules), Withdraws(k, c)
        PROVE  EventsTold'
    <2> DEFINE id == Call[k].id
    <2>1. /\ id \in DOMAIN events /\ id \in Nat /\ Call[k].op = "cancel"
          /\ ~events[id].deleted /\ Logged(k, id, c)
      BY <1>3, RowType DEF Withdraws, Touches, ActiveRows, Rows
    <2>2. LogGains(k, id, c)
      BY <2>1, LoggedGains
    <2>3. /\ DOMAIN events' = DOMAIN events
          /\ events'[id] = [events[id] EXCEPT !.status = "cancelled"]
          /\ \A i \in DOMAIN events \ {id} : events'[i] = events[i]
      BY <1>3, <2>1, CancelledFacts DEF Withdraws
    <2>4. PICK new : new = Len(changes) + 1
      OBVIOUS
    <2>5. changes'[new].op = "cancel"
      BY <2>1, <2>2, <2>4 DEF LogGains
    <2>6. ~events'[id].deleted /\ events'[id].status = "cancelled"
      <3>1. events[id] \in Event
        BY <2>1, RowType
      <3> QED BY <2>1, <2>3, <3>1 DEF Event
    <2>7. Tells(new, id)'
      BY <2>5, <2>6 DEF Tells
    <2>8. DOMAIN events' = DOMAIN events \cup {id}
      BY <2>1, <2>3
    <2> HIDE DEF id
    <2> QED BY <2>1, <2>2, <2>3, <2>4, <2>7, <2>8, ToldStep
  <1>4. ASSUME NEW k \in Keys, LeavesOut(k)
        PROVE  EventsTold'
    <2> DEFINE id == Call[k].id
               c == events[id].content
    <2>1. id \in DOMAIN events /\ id \in Nat /\ Call[k].date \in Dates
      BY <1>4, EventIds, ScheduleAssumption DEF LeavesOut
    <2>2. events[id] \in Event /\ c \in Contents(StoredRules)
      BY <2>1, RowType DEF Event, StoredContents
    <2>3. /\ DOMAIN events' = DOMAIN events
          /\ events'[id] = [events[id] EXCEPT !.excluded = @ \cup {Call[k].date}]
          /\ \A i \in DOMAIN events \ {id} : events'[i] = events[i]
      BY <1>4, <2>1, LeavesOutFacts DEF LeavesOut
    <2>4. \A i \in DOMAIN events : /\ events'[i].content = events[i].content
                                   /\ events'[i].status = events[i].status
                                   /\ events'[i].deleted = events[i].deleted
      BY <2>2, <2>3 DEF Event
    <2>5. LogGains(k, id, c) /\ Call[k].op = "exclude"
      BY <1>4, <2>1, <2>2, LoggedGains DEF LeavesOut
    <2> HIDE DEF id, c
    <2> SUFFICES ASSUME NEW i \in DOMAIN events
                 PROVE  \E n \in DOMAIN changes' : IsLast(n, i)' /\ Tells(n, i)'
      BY <2>3 DEF EventsTold
    <2>6. PICK n \in DOMAIN changes : IsLast(n, i) /\ Tells(n, i)
      BY DEF EventsTold
    <2>7. n \in DOMAIN changes'
      BY <2>5 DEF LogGains
    <2>8. IsLast(n, i)'
      BY <2>5, <2>6, LastStays
    <2>9. Tells(n, i)'
      BY <2>4, <2>5, <2>6, StillTold
    <2> QED BY <2>7, <2>8, <2>9
  <1>5. ASSUME OnlyAnswers PROVE EventsTold'
    BY <1>5 DEF OnlyAnswers, EventsTold, IsLast, Shapes, Tells, Replaced
  <1> QED BY <1>1, <1>2, <1>3, <1>4, <1>5 DEF Effect

\* The change log explains the schedule: an event that is not withdrawn is what
\* its last change says once that is moved to midnight and its tags are spelled
\* as they are stored, and one that is withdrawn lost its identity to the event
\* of a later update.
THEOREM ChangeLogExplainsSchedule == StoreSpec => []ChangesExplainEvents
  <1>1. StoreInit => EventsTold
    BY DEF StoreInit, EventsTold
  <1>2. StoreInv /\ EventsTold /\ [StoreNext]_storeVars => EventsTold'
    <2>1. CASE StoreNext
      BY <2>1, StepHasEffect, EventsToldStep DEF StoreInv
    <2>2. CASE UNCHANGED storeVars
      BY <2>2 DEF storeVars, EventsTold, IsLast, Shapes, Tells, Replaced
    <2> QED BY <2>1, <2>2
  <1>3. StoreInv /\ EventsTold => ChangesExplainEvents
    <2> SUFFICES ASSUME StoreInv, EventsTold, NEW i \in DOMAIN events
                 PROVE  LET last == changes[LastChange(i)] IN
                        IF events[i].deleted
                        THEN Replaced(LastChange(i), i)
                        ELSE /\ last.op = "cancel" <=> events[i].status = "cancelled"
                             /\ last.op # "cancel"
                                    => Columns(last.content) = AsJSON(events[i].content)
      BY DEF ChangesExplainEvents, Replaced
    <2>1. PICK n \in DOMAIN changes : IsLast(n, i) /\ Tells(n, i)
      BY DEF EventsTold
    <2>2. LastChange(i) = n
      BY <2>1, LastChangeIs DEF StoreInv
    <2> QED BY <2>1, <2>2 DEF Tells
  <1> QED BY <1>1, <1>2, <1>3, StoreInvariant, PTL DEF StoreSpec

-----------------------------------------------------------------------------
(* The store implements Calendar.                                          *)

Live == [i \in ActiveRows |->
           [identity |-> Canonical(events[i].content),
            content |-> events[i].content, excluded |-> events[i].excluded]]

\* What a row shows of itself in the calendar.
LEMMA LiveEntries ==
    /\ DOMAIN Live = ActiveRows
    /\ \A i \in ActiveRows : /\ Live[i].identity = Canonical(events[i].content)
                             /\ Live[i].excluded = events[i].excluded
    /\ DOMAIN Live' = ActiveRows'
    /\ \A i \in ActiveRows' : /\ Live'[i].identity = Canonical(events'[i].content)
                              /\ Live'[i].excluded = events'[i].excluded
  BY DEF Live, Canonical

\* A row that is not written shows the same.
LEMMA SameEntry ==
    ASSUME NEW i \in ActiveRows, i \in ActiveRows', events'[i] = events[i]
    PROVE  Live'[i] = Live[i]
  BY DEF Live, Canonical

\* A key that is logged for the first time takes effect once.
LEMMA CountsOnce ==
    ASSUME StoreTypeOK, NEW k \in Keys, NEW id \in Nat, NEW c \in Contents(StoredRules),
           Logged(k, id, c), \A n \in DOMAIN changes : changes[n].by # k
    PROVE  AbstractCalendar!Once(k)
  <1>1. /\ DOMAIN changes' = DOMAIN changes \cup {Len(changes) + 1}
        /\ \A n \in DOMAIN changes : changes'[n] = changes[n]
        /\ changes'[Len(changes) + 1] = LogEntry(k, id, c)
    <2>1. /\ DOMAIN changes' = 1 .. Len(changes) + 1
          /\ \A n \in DOMAIN changes : changes'[n] = changes[n]
          /\ changes'[Len(changes) + 1] = LogEntry(k, id, c)
      BY LoggedFacts
    <2>2. DOMAIN changes = 1 .. Len(changes) /\ Len(changes) \in Nat
      BY RowType
    <2> QED BY <2>1, <2>2
  <1>2. changes'[Len(changes) + 1].by = k
    BY <1>1 DEF LogEntry
  <1>3. {changes'[n].by : n \in DOMAIN changes'} = {changes[n].by : n \in DOMAIN changes} \cup {k}
    BY <1>1, <1>2
  <1> QED BY <1>3 DEF AbstractCalendar!Once

\* An added row is a new event of the calendar.
LEMMA AddsAdds ==
    ASSUME StoreInv, NEW k \in Keys, NEW c \in Contents(StoredRules), Adds(k, c)
    PROVE  AbstractCalendar!Next
  <1> SUFFICES ASSUME NEW new, new = Len(events) + 1 PROVE AbstractCalendar!Next
    OBVIOUS
  <1>1. /\ DOMAIN events' = DOMAIN events \cup {new}
        /\ new \notin DOMAIN events /\ new \in Nat
        /\ \A i \in DOMAIN events : events'[i] = events[i]
        /\ events'[new] = Row(c, "active", FALSE, {})
    <2>1. /\ DOMAIN events' = 1 .. Len(events) + 1
          /\ \A i \in DOMAIN events : events'[i] = events[i]
          /\ events'[new] = Row(c, "active", FALSE, {})
      BY InsertedFacts DEF StoreInv, Adds
    <2>2. DOMAIN events = 1 .. Len(events) /\ Len(events) \in Nat
      BY RowType DEF StoreInv
    <2> QED BY <2>1, <2>2
  <1>2. AbstractCalendar!Once(k)
    BY FreshKey, CountsOnce, <1>1 DEF StoreInv, Adds
  <1>3. \A i \in Rows : events[i].key # Canonical(c)
    BY DEF Adds, Inserted, Holders
  <1>4. /\ Canonical(events'[new].content) = Canonical(c) /\ events'[new].status = "active"
        /\ ~events'[new].deleted /\ events'[new].excluded = {}
    BY <1>1, ColumnsStored DEF Row
  <1>5. ActiveRows' = ActiveRows \cup {new} /\ new \notin ActiveRows
    BY <1>1, <1>4 DEF ActiveRows, Rows
  <1>6. ASSUME NEW i \in ActiveRows
        PROVE  Live'[i] = Live[i] /\ Live[i].identity # Live'[new].identity
    <2>1. i \in Rows /\ events'[i] = events[i] /\ i \in ActiveRows' /\ new \in ActiveRows'
      BY <1>1, <1>5 DEF ActiveRows, Rows
    <2>2. Canonical(events[i].content) = events[i].key
      BY <2>1 DEF StoreInv, KeysHeld, Rows
    <2>3. Live[i].identity = events[i].key /\ Live'[new].identity = Canonical(c)
      BY <1>4, <2>1, <2>2, LiveEntries
    <2> QED BY <1>3, <2>1, <2>3, SameEntry
  <1>7. Live'[new].excluded = {}
    BY <1>4, <1>5, LiveEntries
  <1>8. AbstractCalendar!Add(k, new)
    <2>1. /\ new \notin DOMAIN Live
          /\ DOMAIN Live' = DOMAIN Live \cup {new}
          /\ \A j \in DOMAIN Live : /\ Live'[j] = Live[j]
                                    /\ Live[j].identity # Live'[new].identity
      BY <1>5, <1>6, LiveEntries
    <2> QED BY <1>2, <1>7, <2>1 DEF AbstractCalendar!Add, Live
  <1>9. new \in DOMAIN Live \cup DOMAIN Live'
    BY <1>5, LiveEntries
  <1> QED BY <1>8, <1>9 DEF AbstractCalendar!Next, Live

\* A rewritten row is a changed event, and takes over the identity it gets.
LEMMA RewritesChange ==
    ASSUME StoreInv, NEW k \in Keys, NEW c \in Contents(StoredRules), Rewrites(k, c)
    PROVE  AbstractCalendar!Next
  <1> DEFINE id == Call[k].id
  <1>1. id \in ActiveRows /\ id \in DOMAIN events /\ id \in Nat
    BY EventIds DEF StoreInv, Rewrites, Touches, ActiveRows, Rows
  <1>2. /\ DOMAIN events' = DOMAIN events
        /\ events'[id] = Row(c, events[id].status, events[id].deleted,
                             events[id].excluded)
        /\ \A i \in DOMAIN events \ {id} :
              events'[i] = IF i \in Holders(c)
                           THEN [events[i] EXCEPT !.status = "cancelled",
                                                  !.deleted = TRUE]
                           ELSE events[i]
    BY <1>1, RewrittenFacts DEF StoreInv, Rewrites
  <1>3. AbstractCalendar!Once(k)
    BY <1>1, FreshKey, CountsOnce DEF StoreInv, Rewrites, Touches
  <1> HIDE DEF id
  <1>4. /\ Canonical(events'[id].content) = Canonical(c)
        /\ events'[id].status = events[id].status
        /\ events'[id].deleted = events[id].deleted
        /\ events'[id].excluded = events[id].excluded
    <2>1. events'[id] = Row(c, events[id].status, events[id].deleted, events[id].excluded)
      BY <1>2
    <2>2. Canonical(Columns(c)) = Canonical(c)
      BY ColumnsStored
    <2> QED BY ONLY <2>1, <2>2 DEF Row
  <1>5. id \in ActiveRows'
    BY <1>1, <1>2, <1>4 DEF ActiveRows, Rows
  <1>6. ASSUME NEW i \in DOMAIN events, i # id, i \in Holders(c)
        PROVE  i \notin ActiveRows'
    <2>1. events'[i] = [events[i] EXCEPT !.status = "cancelled", !.deleted = TRUE]
      BY <1>2, <1>6
    <2>2. events[i] \in Event
      BY RowType DEF StoreInv
    <2>3. events'[i].deleted
      BY <2>1, <2>2 DEF Event
    <2> QED BY <2>3 DEF ActiveRows, Rows
  <1>7. ASSUME NEW i \in DOMAIN events, i # id, i \notin Holders(c)
        PROVE  events'[i] = events[i] /\ (i \in ActiveRows' <=> i \in ActiveRows)
    <2>1. events'[i] = events[i]
      BY <1>2, <1>7
    <2> QED BY <1>2, <2>1 DEF ActiveRows, Rows
  <1>8. \A i \in ActiveRows : /\ i \in DOMAIN events
                              /\ i \in Holders(c) <=> Live[i].identity = Canonical(c)
    BY LiveEntries DEF Holders, ActiveRows, Rows, StoreInv, KeysHeld
  <1>9. Live'[id].identity = Canonical(c)
    BY <1>4, <1>5, LiveEntries
  <1>10. ActiveRows' = {j \in ActiveRows :
                           j = id \/ Live[j].identity # Live'[id].identity}
    <2>1. ActiveRows' \subseteq DOMAIN events
      BY <1>2 DEF ActiveRows, Rows
    <2> QED BY <1>1, <1>5, <1>6, <1>7, <1>8, <1>9, <2>1
  <1>11. \A j \in ActiveRows' \ {id} : Live'[j] = Live[j]
    <2> SUFFICES ASSUME NEW j \in ActiveRows', j # id PROVE Live'[j] = Live[j]
      OBVIOUS
    <2>1. j \in ActiveRows /\ j \in DOMAIN events /\ j \notin Holders(c)
      BY <1>8, <1>9, <1>10
    <2> QED BY <1>7, <2>1, SameEntry
  <1>12. AbstractCalendar!Change(k, id)
    <2>1. /\ id \in DOMAIN Live /\ id \in DOMAIN Live'
          /\ Live'[id].excluded = Live[id].excluded
      BY <1>1, <1>4, <1>5, LiveEntries
    <2>2. /\ DOMAIN Live' = {j \in DOMAIN Live :
                                j = id \/ Live[j].identity # Live'[id].identity}
          /\ \A j \in DOMAIN Live' \ {id} : Live'[j] = Live[j]
      BY <1>10, <1>11, LiveEntries
    <2> QED BY <1>3, <2>1, <2>2 DEF AbstractCalendar!Change, Live
  <1>13. id \in DOMAIN Live
    BY <1>1, LiveEntries
  <1> QED BY <1>12, <1>13 DEF AbstractCalendar!Next, Live

\* A cancelled row is an event withdrawn, and nothing else changes.
LEMMA WithdrawsWithdraw ==
    ASSUME StoreInv, NEW k \in Keys, NEW c \in Contents(StoredRules), Withdraws(k, c)
    PROVE  AbstractCalendar!Next
  <1> DEFINE id == Call[k].id
  <1>1. id \in ActiveRows /\ id \in DOMAIN events /\ id \in Nat
    BY EventIds DEF StoreInv, Withdraws, Touches, ActiveRows, Rows
  <1>2. /\ DOMAIN events' = DOMAIN events
        /\ events'[id] = [events[id] EXCEPT !.status = "cancelled"]
        /\ \A i \in DOMAIN events \ {id} : events'[i] = events[i]
    BY <1>1, CancelledFacts DEF StoreInv, Withdraws
  <1>3. AbstractCalendar!Once(k)
    BY <1>1, FreshKey, CountsOnce DEF StoreInv, Withdraws, Touches
  <1> HIDE DEF id
  <1>4. events'[id].status = "cancelled"
    BY <1>1, <1>2, RowType DEF StoreInv, Event
  <1>5. ActiveRows' = ActiveRows \ {id}
    BY <1>1, <1>2, <1>4 DEF ActiveRows, Rows
  <1>6. \A j \in ActiveRows' : Live'[j] = Live[j]
    <2> SUFFICES ASSUME NEW j \in ActiveRows' PROVE Live'[j] = Live[j]
      OBVIOUS
    <2>1. j \in ActiveRows /\ j \in DOMAIN events \ {id}
      BY <1>5 DEF ActiveRows, Rows
    <2> QED BY <1>2, <2>1, SameEntry
  <1>7. Live' = [j \in DOMAIN Live \ {id} |-> Live[j]]
    <2>1. Live' = [j \in ActiveRows' |-> Live'[j]]
      BY DEF Live
    <2> QED BY <1>5, <1>6, <2>1, LiveEntries
  <1>8. id \in DOMAIN Live
    BY <1>1, LiveEntries
  <1>9. AbstractCalendar!Withdraw(k, id)
    BY <1>3, <1>7, <1>8 DEF AbstractCalendar!Withdraw, Live
  <1> QED BY <1>8, <1>9 DEF AbstractCalendar!Next, Live

\* An excluded date is one more occurrence of the event left out.
LEMMA LeavesOutExcludes ==
    ASSUME StoreInv, NEW k \in Keys, LeavesOut(k)
    PROVE  AbstractCalendar!Next
  <1> DEFINE id == Call[k].id
             date == Call[k].date
  <1>1. /\ id \in ActiveRows /\ id \in DOMAIN events /\ id \in Nat
        /\ date \in Dates /\ date \notin events[id].excluded
    BY EventIds, ScheduleAssumption DEF StoreInv, KeysHeld, LeavesOut, ActiveRows, Rows
  <1>2. /\ DOMAIN events' = DOMAIN events
        /\ events'[id] = [events[id] EXCEPT !.excluded = @ \cup {date}]
        /\ \A i \in DOMAIN events \ {id} : events'[i] = events[i]
    BY <1>1, LeavesOutFacts DEF StoreInv, LeavesOut
  <1>3. events[id].content \in Contents(StoredRules) /\ events[id] \in Event
    BY <1>1, RowType DEF StoreInv, Event, StoredContents
  <1>4. AbstractCalendar!Once(k)
    BY <1>1, <1>3, FreshKey, CountsOnce DEF StoreInv, LeavesOut
  <1> HIDE DEF id, date
  <1>5. /\ events'[id].content = events[id].content
        /\ events'[id].status = events[id].status
        /\ events'[id].deleted = events[id].deleted
        /\ events'[id].excluded = events[id].excluded \cup {date}
    BY <1>2, <1>3 DEF Event
  <1>6. ActiveRows' = ActiveRows
    BY <1>1, <1>2, <1>5 DEF ActiveRows, Rows
  <1>7. \A j \in ActiveRows \ {id} : Live'[j] = Live[j]
    <2> SUFFICES ASSUME NEW j \in ActiveRows, j # id PROVE Live'[j] = Live[j]
      OBVIOUS
    <2>1. j \in ActiveRows' /\ j \in DOMAIN events \ {id}
      BY <1>6 DEF ActiveRows, Rows
    <2> QED BY <1>2, <2>1, SameEntry
  <1>8. Live'[id] = [Live[id] EXCEPT !.excluded = @ \cup {date}]
    <2>1. id \in ActiveRows /\ id \in ActiveRows'
      BY <1>1, <1>6
    <2>2. Live[id] = [identity |-> Canonical(events[id].content),
                      content |-> events[id].content, excluded |-> events[id].excluded]
      BY <2>1 DEF Live
    <2>3. Live'[id] = [identity |-> Canonical(events'[id].content),
                       content |-> events'[id].content, excluded |-> events'[id].excluded]
      BY <2>1 DEF Live, Canonical
    <2> QED BY <1>5, <2>2, <2>3
  <1>9. Live' = [Live EXCEPT ![id] = [Live[id] EXCEPT !.excluded = @ \cup {date}]]
    <2>1. Live' = [j \in ActiveRows' |-> Live'[j]] /\ Live = [j \in ActiveRows |-> Live[j]]
      BY DEF Live
    <2> QED BY <1>1, <1>6, <1>7, <1>8, <2>1
  <1>10. /\ id \in DOMAIN Live /\ DOMAIN Live' = DOMAIN Live
         /\ date \in Live'[id].excluded /\ date \notin Live[id].excluded
    BY <1>1, <1>5, <1>6, LiveEntries
  <1>11. AbstractCalendar!Exclude(k, id, date)
    BY <1>4, <1>9, <1>10 DEF AbstractCalendar!Exclude, Live
  <1> QED BY <1>10, <1>11 DEF AbstractCalendar!Next, Live

\* Whatever the transactions do to rows, keys, receipts and logs, the active
\* events are a calendar that only mutations change, each at most once, one
\* event at a time, replacing another event only to take over its identity.
THEOREM StoreImplementsCalendar == StoreSpec => ImplementsCalendar
  <1>1. StoreInit => AbstractCalendar!Init
    BY DEF StoreInit, AbstractCalendar!Init, ActiveRows, Rows
  <1>2. StoreInv /\ [StoreNext]_storeVars
          => [AbstractCalendar!Next]_(AbstractCalendar!calendarVars)
    <2>1. ASSUME UNCHANGED <<events, changes>>
          PROVE  UNCHANGED AbstractCalendar!calendarVars
      BY <2>1 DEF AbstractCalendar!calendarVars, ActiveRows, Rows
    <2>2. StoreInv /\ UNCHANGED storeVars => UNCHANGED AbstractCalendar!calendarVars
      BY <2>1 DEF storeVars
    <2>3. ASSUME StoreInv, StoreNext
          PROVE  AbstractCalendar!Next \/ UNCHANGED AbstractCalendar!calendarVars
      <3>1. Effect
        BY <2>3, StepHasEffect DEF StoreInv
      <3>2. OnlyAnswers => UNCHANGED AbstractCalendar!calendarVars
        BY <2>1 DEF OnlyAnswers
      <3> QED BY <2>3, <3>1, <3>2, AddsAdds, RewritesChange, WithdrawsWithdraw,
                 LeavesOutExcludes DEF Effect
    <2> QED BY <2>2, <2>3
  <1> QED BY <1>1, <1>2, StoreInvariant, PTL
          DEF StoreSpec, ImplementsCalendar, AbstractCalendar!Spec

-----------------------------------------------------------------------------
(* The callers.                                                            *)

NothingSeen == [k \in Keys |-> NoVersion]
Stages == {"lookup", "read", "prepare", "check", "apply", "create", "exclude"}
Hermes(k) == Call[k].origin = "hermes"
Changing(k) == Call[k].op \in {"update", "cancel"}

-----------------------------------------------------------------------------
(* The inductive invariant.                                                *)

\* What Hermes is going to change it has seen as its request read it.
SeenForHermes(sn) ==
    \A k \in Keys :
        sn[k] # NoVersion /\ Hermes(k) /\ Changing(k) => Snapshot(sn[k]) = etag[k]

\* An execution of request r at stage s of item i, with what it has seen.
Fits(r, i, s, sn) ==
    /\ sn \in [Keys -> Versions]
    /\ IF r = Idle
       THEN i = 1 /\ s = "idle" /\ sn = NothingSeen
       ELSE /\ r \in sent /\ i \in DOMAIN Items[r] /\ s \in Stages
            /\ \A k \in Keys : sn[k] # NoVersion => \E j \in DOMAIN Items[r] : Items[r][j] = k
            /\ s \in {"prepare", "check"} => Imports(r)
            /\ SeenForHermes(sn)
            /\ s = "read" => Call[Items[r][i]].op # "create"
            /\ s = "apply" /\ Hermes(Items[r][i]) =>
                  Changing(Items[r][i]) /\ sn[Items[r][i]] # NoVersion

Executions ==
    /\ task \in [Executors -> Requests \cup {Idle}] /\ item \in [Executors -> Nat]
    /\ stage \in [Executors -> Stages \cup {"idle"}]
    /\ seen \in [Executors -> [Keys -> Versions]]
    /\ \A x \in Executors : Fits(task[x], item[x], stage[x], seen[x])

Clients ==
    /\ etag \in [Keys -> Versions]
    /\ sent \subseteq Requests
    /\ answers \in [Keys -> SUBSET ((Outcomes \cup {"blamed"}) \X Versions)]

IInv == StoreTypeOK /\ Clients /\ Executions

-----------------------------------------------------------------------------
(* Requests, keys and versions.                                            *)

LEMMA ItemTypes ==
    ASSUME NEW r \in Requests
    PROVE  /\ 1 \in DOMAIN Items[r] /\ Len(Items[r]) \in Nat
           /\ DOMAIN Items[r] = 1 .. Len(Items[r])
           /\ \A i \in DOMAIN Items[r] : Items[r][i] \in Keys
           /\ \A i \in DOMAIN Items[r] : Call[Items[r][i]].origin = Origin(r)
           /\ r # Idle
  <1>1. /\ Items[r] \in Seq(Keys) /\ Items[r] # <<>> /\ r # Idle
        /\ \A i \in DOMAIN Items[r] : Call[Items[r][i]].origin = Origin(r)
    BY RequestsAssumption
  <1>2. Len(Items[r]) \in Nat /\ DOMAIN Items[r] = 1 .. Len(Items[r])
    BY <1>1, LenProperties
  <1>3. Len(Items[r]) # 0
    BY <1>1, EmptySeq
  <1>4. \A i \in DOMAIN Items[r] : Items[r][i] \in Keys
    BY <1>1, <1>2, ElementOfSeq
  <1> QED BY <1>1, <1>2, <1>3, <1>4

LEMMA CallTypes ==
    ASSUME NEW k \in Keys
    PROVE  /\ Call[k].origin \in {"agent", "hermes"} /\ Call[k].op \in Operations
           /\ Call[k].id \in Nat /\ Call[k].date \in Dates
  BY ScheduleAssumption

\* The item an execution has reached.
LEMMA KeyTypes ==
    ASSUME Clients, Executions, NEW x \in Executors, task[x] # Idle
    PROVE  /\ task[x] \in Requests /\ item[x] \in DOMAIN Items[task[x]]
           /\ Key(x) = Items[task[x]][item[x]] /\ Key(x) \in Keys
           /\ Call[Key(x)].origin = Origin(task[x])
  BY ItemTypes DEF Clients, Executions, Fits, Key

\* A key belongs to one item of one request.
LEMMA OneItem ==
    ASSUME NEW q \in Requests, NEW r \in Requests,
           NEW i \in DOMAIN Items[q], NEW j \in DOMAIN Items[r], Items[q][i] = Items[r][j]
    PROVE  q = r /\ i = j
  BY RequestsAssumption

\* What is read of an event is a version of it.
LEMMA ReadVersion ==
    ASSUME StoreTypeOK, NEW i \in DOMAIN events
    PROVE  /\ Get(i) \in EventVersions /\ Get(i) # NoVersion
           /\ Snapshot(Get(i)) \in EventVersions /\ Snapshot(Get(i)) # NoVersion
           /\ Get(i).content = events[i].content
           /\ Snapshot(Get(i)).content = AsJSON(events[i].content)
  <1>1. events[i] \in Event /\ i \in Nat
    BY RowType
  <1>2. Get(i) = [id |-> i, content |-> events[i].content, status |-> events[i].status,
                  excluded |-> events[i].excluded]
    BY DEF Get, EventOf
  <1>3. /\ events[i].content \in Contents(StoredRules)
        /\ events[i].status \in Statuses /\ events[i].excluded \in SUBSET Dates
    BY <1>1 DEF Event, StoredContents
  <1>4. AsJSON(events[i].content) \in Contents(StoredRules)
    BY <1>3, JSONStored
  <1>5. Snapshot(Get(i)) =
          [id |-> i, content |-> AsJSON(events[i].content), status |-> events[i].status,
           excluded |-> events[i].excluded]
    BY <1>2 DEF Snapshot
  <1>6. Get(i) \in EventVersions /\ Snapshot(Get(i)) \in EventVersions
    BY <1>1, <1>2, <1>3, <1>4, <1>5 DEF EventVersions
  <1> QED BY <1>2, <1>5, <1>6, NoVersionAssumption

-----------------------------------------------------------------------------
(* The executions.                                                         *)

LEMMA IdleFits == Fits(Idle, 1, "idle", NothingSeen)
  BY DEF Fits, NothingSeen, Versions

LEMMA EntryFits ==
    ASSUME sent \subseteq Requests, NEW r, r # Idle, NEW i, NEW s, NEW sn, Fits(r, i, s, sn),
           NEW j \in DOMAIN Items[r]
    PROVE  Fits(r, j, Entry(r, j), sn)
  <1>1. r \in Requests
    BY DEF Fits
  <1>2. Items[r][j] \in Keys /\ Call[Items[r][j]].origin = Origin(r)
    BY <1>1, ItemTypes
  <1>3. Call[Items[r][j]].op \in Operations
    BY <1>2, CallTypes
  <1>4. /\ Entry(r, j) \in Stages \ {"prepare", "apply"}
        /\ Entry(r, j) = "check" => Imports(r)
        /\ Entry(r, j) = "read" => Call[Items[r][j]].op # "create"
    BY <1>3 DEF Entry, Stages, Operations
  <1> QED BY <1>4 DEF Fits

\* One execution steps, and the versions and the requests sent stay.
LEMMA OthersFit ==
    ASSUME sent \subseteq Requests, Executions, UNCHANGED clientVars, NEW x \in Executors,
           NEW r, NEW i, NEW s, NEW sn, Fits(r, i, s, sn),
           task' = [task EXCEPT ![x] = r], item' = [item EXCEPT ![x] = i],
           stage' = [stage EXCEPT ![x] = s], seen' = [seen EXCEPT ![x] = sn]
    PROVE  Executions'
  <1>1. ASSUME NEW q, NEW j, NEW t, NEW tn, Fits(q, j, t, tn) PROVE Fits(q, j, t, tn)'
    BY <1>1 DEF Fits, SeenForHermes, clientVars
  <1>2. ASSUME NEW y \in Executors PROVE Fits(task[y], item[y], stage[y], seen[y])'
    <2>1. CASE y = x
      <3>1. task'[y] = r /\ item'[y] = i /\ stage'[y] = s /\ seen'[y] = sn
        BY <2>1 DEF Executions
      <3> QED BY <1>1, <3>1
    <2>2. CASE y # x
      <3>1. task'[y] = task[y] /\ item'[y] = item[y] /\ stage'[y] = stage[y] /\ seen'[y] = seen[y]
        BY <2>2 DEF Executions
      <3>2. ASSUME NEW q, NEW j, NEW t, NEW tn, q = task[y], j = item[y], t = stage[y],
                   tn = seen[y]
            PROVE  Fits(task[y], item[y], stage[y], seen[y])'
        <4>1. Fits(q, j, t, tn)
          BY <3>2 DEF Executions
        <4>2. Fits(q, j, t, tn)'
          BY <1>1, <4>1
        <4> QED BY <3>1, <3>2, <4>2
      <3> QED BY <3>2
    <2> QED BY <2>1, <2>2
  <1>3. /\ r \in Requests \cup {Idle} /\ s \in Stages \cup {"idle"}
        /\ sn \in [Keys -> Versions] /\ i \in Nat
    BY ItemTypes DEF Fits
  <1> QED BY <1>2, <1>3 DEF Executions

\* An execution that stays at its request and its item with what it has seen.
LEMMA GotoFits ==
    ASSUME sent \subseteq Requests, Executions, UNCHANGED clientVars, NEW x \in Executors,
           NEW next,
           Goto(x, next), UNCHANGED seen,
           NEW r, NEW i, NEW sn, r = task[x], i = item[x], sn = seen[x],
           Fits(r, i, next, sn)
    PROVE  Executions'
  <1>1. /\ task' = [task EXCEPT ![x] = r] /\ item' = [item EXCEPT ![x] = i]
        /\ seen' = [seen EXCEPT ![x] = sn] /\ stage' = [stage EXCEPT ![x] = next]
    BY DEF Goto, Executions
  <1> QED BY <1>1, OthersFit

LEMMA StopFits ==
    ASSUME sent \subseteq Requests, Executions, UNCHANGED clientVars, NEW x \in Executors,
           Stop(x)
    PROVE  Executions'
  <1>1. /\ task' = [task EXCEPT ![x] = Idle] /\ item' = [item EXCEPT ![x] = 1]
        /\ stage' = [stage EXCEPT ![x] = "idle"] /\ seen' = [seen EXCEPT ![x] = NothingSeen]
    BY DEF Stop, NothingSeen
  <1> QED BY <1>1, IdleFits, OthersFit

LEMMA AdvanceFits ==
    ASSUME Clients, Executions, UNCHANGED clientVars, NEW x \in Executors, task[x] # Idle,
           Advance(x)
    PROVE  Executions'
  <1>1. CASE item[x] < Len(Items[task[x]])
    <2>1. /\ item' = [item EXCEPT ![x] = @ + 1]
          /\ stage' = [stage EXCEPT ![x] = Entry(task[x], item[x] + 1)]
          /\ UNCHANGED <<task, seen>>
      BY <1>1 DEF Advance
    <2> SUFFICES ASSUME NEW r, NEW i, NEW s, NEW sn, r = task[x], i = item[x], s = stage[x],
                        sn = seen[x]
                 PROVE  Executions'
      OBVIOUS
    <2>2. Fits(r, i, s, sn) /\ r # Idle
      BY DEF Executions
    <2>3. i + 1 \in DOMAIN Items[r]
      BY <1>1, KeyTypes, ItemTypes
    <2>4. Fits(r, i + 1, Entry(r, i + 1), sn)
      BY <2>2, <2>3, EntryFits DEF Clients
    <2>5. /\ task' = [task EXCEPT ![x] = r] /\ item' = [item EXCEPT ![x] = i + 1]
          /\ stage' = [stage EXCEPT ![x] = Entry(r, i + 1)]
          /\ seen' = [seen EXCEPT ![x] = sn]
      BY <2>1 DEF Executions
    <2> QED BY <2>4, <2>5, OthersFit DEF Clients
  <1>2. CASE ~(item[x] < Len(Items[task[x]]))
    BY <1>2, StopFits DEF Advance, Clients
  <1> QED BY <1>1, <1>2

-----------------------------------------------------------------------------
(* The calls of the store.                                                 *)

LEMMA StoredAreContents == Contents(StoredRules) \subseteq Contents(Rules)
  BY DEF Contents, StoredRules, Rules

\* What is asked for has the type of a content; a change is one of a version.
LEMMA BodyType ==
    ASSUME NEW k \in Keys, NEW read,
           \/ Call[k].op = "create"
           \/ /\ Call[k].op = "update"
              /\ (IF Hermes(k) THEN etag[k] ELSE read) \in EventVersions
    PROVE  Body(k, read) \in Contents(Rules)
  <1>1. CASE Call[k].op = "create"
    <2>1. Body(k, read) = Input[k] /\ Input[k] \in Asked
      BY <1>1, RequestsAssumption DEF Body
    <2> QED BY <2>1 DEF Asked, Contents, Rules
  <1>2. CASE Call[k].op = "update"
    <2> DEFINE old == IF Hermes(k) THEN etag[k] ELSE read
               fields == {"title", "place", "rule", "note", "tags", "raw"}
               body == Body(k, read)
    <2>1. old.content \in Contents(Rules)
      <3>1. old.content \in Contents(StoredRules)
        BY <1>2 DEF EventVersions
      <3> QED BY <3>1, StoredAreContents
    <2>2. Input[k] \in Asking
      BY <1>2, RequestsAssumption
    <2>3. DOMAIN Input[k] = fields
      BY <2>2 DEF Asking
    <2>4. body = [f \in fields |-> IF Input[k][f] = Keep THEN old.content[f] ELSE Input[k][f]]
      BY <1>2, <2>3 DEF Body, Hermes
    <2> HIDE DEF old
    <2>5. /\ old.content.title \in Titles /\ old.content.place \in Places
          /\ old.content.rule \in Rules /\ old.content.note \in Notes
          /\ old.content.tags \in SUBSET Tags /\ old.content.raw \in SUBSET Raw
      BY <2>1 DEF Contents
    <2>6. /\ Input[k].title \in Titles \cup {Keep} /\ Input[k].place \in Places \cup {Keep}
          /\ Input[k].rule \in Rules \cup {Keep} /\ Input[k].note \in Notes \cup {Keep}
          /\ Input[k].tags \in (SUBSET Tags) \cup {Keep} /\ Input[k].raw \in SUBSET Raw
      BY <2>2 DEF Asking, Rules
    <2>7. /\ body["title"] \in Titles /\ body["place"] \in Places /\ body["rule"] \in Rules
          /\ body["note"] \in Notes /\ body["tags"] \in SUBSET Tags
          /\ body["raw"] \in SUBSET Raw
      BY <2>4, <2>5, <2>6
    <2>8. body = [title |-> body["title"], place |-> body["place"], rule |-> body["rule"],
                  note |-> body["note"], tags |-> body["tags"], raw |-> body["raw"]]
      BY <2>4
    <2> HIDE DEF body
    <2>9. body \in Contents(Rules)
      BY <2>7, <2>8 DEF Contents
    <2> QED BY <2>9 DEF body
  <1> QED BY <1>1, <1>2

\* A proposal writes only on top of the version it was made for, so a caller
\* with a version it read before does no more than one with the present one.
LEMMA ApplyIsStep ==
    ASSUME StoreTypeOK, NEW k \in Keys, NEW d, NEW before, NEW out \in Outcomes,
           ApplyAll(k, d, before, out),
           Call[k].op = "create" => d \in Contents(Rules),
           Call[k].op = "update" /\ Matches(Call[k].id, before) => d \in Contents(Rules)
    PROVE  [StoreNext]_storeVars
  <1> DEFINE now == Seen(Call[k].id)
  <1>1. ASSUME NEW e \in Contents(Rules), ApplyAll(k, e, now, out) PROVE StoreNext
    BY <1>1 DEF StoreNext
  <1>2. ASSUME NEW i \in DOMAIN events PROVE events[i].content \in Contents(Rules)
    BY RowType, StoredAreContents DEF Event, StoredContents
  <1>3. CASE /\ out = "known" /\ receipts[k] = 0 /\ sources[k] # 0
             /\ receipts' = [receipts EXCEPT ![k] = sources[k]]
             /\ UNCHANGED <<events, sources, changes, groupQueue, adminQueue>>
    <2>1. sources[k] \in 0 .. Len(events) /\ DOMAIN events = 1 .. Len(events)
          /\ Len(events) \in Nat
      BY RowType DEF StoreTypeOK
    <2>2. sources[k] \in DOMAIN events
      BY <1>3, <2>1
    <2>3. ApplyAll(k, events[sources[k]].content, now, out)
      BY <1>3 DEF ApplyAll
    <2> QED BY <1>1, <1>2, <2>2, <2>3
  <1>4. CASE /\ receipts[k] = 0 /\ sources[k] = 0 /\ out = "applied"
             /\ Call[k].op = "create" \/ Matches(Call[k].id, before)
             /\ Call[k].op = "cancel" \/ Valid(Proposed(k, d, before))
             /\ Written(k, Proposed(k, d, before))
    <2>1. CASE Call[k].op = "create"
      <3>1. Proposed(k, d, before) = Proposed(k, d, now)
        BY <2>1 DEF Proposed
      <3>2. ApplyAll(k, d, now, out)
        BY <1>4, <2>1, <3>1 DEF ApplyAll, ApplyNew
      <3> QED BY <1>1, <2>1, <3>2
    <2>2. CASE Call[k].op # "create"
      <3>1. Call[k].id \in DOMAIN events /\ before = now
        BY <1>4, <2>2 DEF Matches, Seen, ActiveRows, Rows
      <3>2. CASE Call[k].op = "update"
        BY <1>1, <1>4, <2>2, <3>1, <3>2
      <3>3. CASE Call[k].op # "update"
        <4>1. Call[k].op = "cancel"
          BY <1>4, <2>2, <3>3 DEF Written
        <4>2. ApplyAll(k, events[Call[k].id].content, now, out)
          BY <3>1, <4>1 DEF ApplyAll, Proposed
        <4> QED BY <1>1, <1>2, <3>1, <4>2
      <3> QED BY <3>2, <3>3
    <2> QED BY <2>1, <2>2
  <1>5. CASE UNCHANGED storeVars
    BY <1>5
  <1> QED BY <1>3, <1>4, <1>5 DEF ApplyAll, ApplyNew

LEMMA ExcludeIsStep ==
    ASSUME NEW k \in Keys, NEW version, NEW out \in Outcomes,
           ExcludeOccurrence(k, version, out)
    PROVE  [StoreNext]_storeVars
  <1>1. CASE UNCHANGED storeVars
    BY <1>1
  <1>2. CASE out = "applied"
    <2>1. /\ Call[k].id \in DOMAIN events
          /\ version = NoVersion \/ version = VersionInTx(Call[k].id)
      BY <1>2 DEF ExcludeOccurrence
    <2> QED BY <2>1 DEF StoreNext
  <1> QED BY <1>1, <1>2 DEF ExcludeOccurrence

\* Types last, and no event goes, in a step of the store.
LEMMA StoreStepTypes ==
    ASSUME StoreTypeOK, [StoreNext]_storeVars
    PROVE  StoreTypeOK' /\ DOMAIN events \subseteq DOMAIN events'
  <1>1. CASE StoreNext
    BY <1>1, StepHasEffect, TypeStep, ExclusionsStay
  <1>2. CASE UNCHANGED storeVars
    BY <1>2 DEF storeVars, StoreTypeOK
  <1> QED BY <1>1, <1>2

-----------------------------------------------------------------------------
(* The steps of an execution.                                              *)

\* What a step of an execution gives: its invariants, and a step of the store.
Good == Clients' /\ Executions' /\ [StoreNext]_storeVars

\* An execution that is at a statement has a request.
LEMMA AtWork ==
    ASSUME Clients, Executions, NEW x \in Executors, stage[x] # "idle" \/ task[x] # Idle
    PROVE  /\ task[x] # Idle /\ task[x] \in Requests /\ item[x] \in DOMAIN Items[task[x]]
           /\ Key(x) = Items[task[x]][item[x]] /\ Key(x) \in Keys
           /\ Call[Key(x)].origin = Origin(task[x])
           /\ Fits(task[x], item[x], stage[x], seen[x])
  <1>1. Fits(task[x], item[x], stage[x], seen[x])
    BY DEF Executions
  <1>2. task[x] # Idle
    BY <1>1 DEF Fits
  <1> QED BY <1>1, <1>2, KeyTypes

LEMMA ToldTypes ==
    ASSUME Clients, NEW x \in Executors, Key(x) \in Keys,
           NEW out \in Outcomes \cup {"blamed"}, NEW version \in Versions, Told(x, out, version), UNCHANGED clientVars
    PROVE  Clients'
  <1>1. answers' \in [Keys -> SUBSET ((Outcomes \cup {"blamed"}) \X Versions)]
    BY DEF Clients, Told
  <1> QED BY <1>1 DEF Clients, clientVars

LEMMA NothingTold ==
    ASSUME Clients, UNCHANGED clientVars, UNCHANGED answers
    PROVE  Clients'
  BY DEF Clients, clientVars

LEMMA AnswerGood ==
    ASSUME Clients, Executions, NEW x \in Executors, task[x] # Idle, NEW out \in Outcomes,
           Answer(x, out), UNCHANGED clientVars
    PROVE  Clients' /\ Executions'
  <1>1. NoVersion \in Versions /\ Key(x) \in Keys
    BY KeyTypes DEF Versions
  <1> QED BY <1>1, ToldTypes, AdvanceFits DEF Answer

LEMMA LookupGood ==
    ASSUME IInv, NEW x \in Executors, Lookup(x)
    PROVE  Good
  <1> USE DEF IInv
  <1>1. stage[x] = "lookup" /\ UNCHANGED storeVars /\ UNCHANGED clientVars
    BY DEF Lookup
  <1>2. CASE Answer(x, "replayed")
    BY <1>1, <1>2, AnswerGood, AtWork DEF Good, Outcomes
  <1>3. CASE Goto(x, AfterLookup(Key(x))) /\ UNCHANGED <<seen, answers>>
    <2> SUFFICES ASSUME NEW r, NEW i, NEW sn, r = task[x], i = item[x], sn = seen[x]
                 PROVE  Good
      OBVIOUS
    <2>1. Fits(r, i, "lookup", sn) /\ r # Idle /\ Key(x) = Items[r][i]
      BY <1>1, AtWork
    <2>2. Fits(r, i, AfterLookup(Items[r][i]), sn)
      BY <2>1 DEF Fits, AfterLookup, Stages, Hermes
    <2>3. Executions'
      BY <1>1, <1>3, <2>1, <2>2, GotoFits DEF Clients
    <2> QED BY <1>1, <1>3, <2>3, NothingTold DEF Good
  <1> QED BY <1>2, <1>3 DEF Lookup

\* A version that is read is the one Hermes' request was written for.
LEMMA ReadFits ==
    ASSUME StoreTypeOK, NEW r \in Requests, NEW i \in DOMAIN Items[r], NEW sn,
           Fits(r, i, "read", sn), NEW k, k = Items[r][i], Refusal(k) = {}
    PROVE  Fits(r, i, IF Call[k].op = "exclude" THEN "exclude" ELSE "apply",
                [sn EXCEPT ![k] = Get(Call[k].id)])
  <1> DEFINE id == Call[k].id
             now == Get(id)
             next == IF Call[k].op = "exclude" THEN "exclude" ELSE "apply"
             new == [sn EXCEPT ![k] = now]
  <1>1. r # Idle /\ k \in Keys /\ Call[k].op # "create" /\ sn \in [Keys -> Versions]
    BY ItemTypes DEF Fits
  <1>2. id \in DOMAIN events
    BY DEF Refusal
  <1>3. now \in EventVersions /\ now # NoVersion
    BY <1>2, ReadVersion
  <1>4. ASSUME Hermes(k), Changing(k) PROVE Snapshot(now) = etag[k]
    <2>1. "stale" \notin Refusal(k)
      OBVIOUS
    <2> QED BY <1>2, <1>4, <2>1 DEF Refusal, Hermes, Changing
  <1> HIDE DEF now, id
  <1>5. new \in [Keys -> Versions] /\ new[k] = now
    BY <1>1, <1>3 DEF Versions
  <1>6. SeenForHermes(new)
    <2> SUFFICES ASSUME NEW l \in Keys, new[l] # NoVersion, Hermes(l), Changing(l)
                 PROVE  Snapshot(new[l]) = etag[l]
      BY DEF SeenForHermes
    <2>1. CASE l = k
      BY <1>4, <1>5, <2>1
    <2>2. CASE l # k
      <3>1. new[l] = sn[l]
        BY <1>1, <2>2
      <3> QED BY <1>1, <3>1 DEF Fits, SeenForHermes
    <2> QED BY <2>1, <2>2
  <1>7. ASSUME NEW l \in Keys, new[l] # NoVersion
        PROVE  \E j \in DOMAIN Items[r] : Items[r][j] = l
    <2>1. CASE l = k
      BY <2>1
    <2>2. CASE l # k
      BY <1>1, <1>7, <2>2 DEF Fits
    <2> QED BY <2>1, <2>2
  <1>8. next = "apply" => Changing(k)
    BY <1>1, CallTypes DEF Changing, Operations
  <1>9. next \in Stages /\ next \notin {"prepare", "check", "read"}
    BY DEF Stages
  <1>10. r \in sent
    BY <1>1 DEF Fits
  <1> HIDE DEF new, next
  <1>11. Fits(r, i, next, new)
    BY <1>1, <1>3, <1>5, <1>6, <1>7, <1>8, <1>9, <1>10 DEF Fits
  <1> QED BY <1>11 DEF next, new, now, id

LEMMA ReadGood ==
    ASSUME IInv, NEW x \in Executors, Read(x)
    PROVE  Good
  <1> USE DEF IInv
  <1> DEFINE k == Key(x)
  <1>1. stage[x] = "read" /\ UNCHANGED storeVars /\ UNCHANGED clientVars
    BY DEF Read
  <1>2. ASSUME NEW out \in Refusal(k), Answer(x, out) PROVE Good
    <2>1. out \in Outcomes
      BY DEF Refusal, Outcomes
    <2> QED BY <1>1, <1>2, <2>1, AnswerGood, AtWork DEF Good
  <1>3. ASSUME Refusal(k) = {}, seen' = [seen EXCEPT ![x][k] = Get(Call[k].id)],
               Goto(x, IF Call[k].op = "exclude" THEN "exclude" ELSE "apply"),
               UNCHANGED answers
        PROVE  Good
    <2> SUFFICES ASSUME NEW r, NEW i, NEW sn, NEW l, NEW next, NEW new,
                        r = task[x], i = item[x], sn = seen[x], l = k,
                        next = IF Call[l].op = "exclude" THEN "exclude" ELSE "apply",
                        new = [sn EXCEPT ![l] = Get(Call[l].id)]
                 PROVE  Good
      OBVIOUS
    <2>1. /\ Fits(r, i, "read", sn) /\ r \in Requests /\ i \in DOMAIN Items[r]
          /\ l = Items[r][i] /\ l \in Keys
      BY <1>1, AtWork
    <2>2. Fits(r, i, next, new)
      BY <1>3, <2>1, ReadFits
    <2>3. /\ task' = [task EXCEPT ![x] = r] /\ item' = [item EXCEPT ![x] = i]
          /\ stage' = [stage EXCEPT ![x] = next]
      BY <1>3 DEF Goto, Executions
    <2>4. seen' = [seen EXCEPT ![x] = new]
      BY <1>3 DEF Executions
    <2>5. Executions'
      BY <1>1, <2>2, <2>3, <2>4, OthersFit DEF Clients
    <2> QED BY <1>1, <1>3, <2>5, NothingTold DEF Good
  <1> QED BY <1>2, <1>3 DEF Read

\* An import reads the targets of its updates; it is not Hermes'.
LEMMA PrepareFits ==
    ASSUME StoreTypeOK, NEW r \in Requests, NEW i \in DOMAIN Items[r], NEW sn,
           Fits(r, i, "prepare", sn), NEW k, k = Items[r][i], NEW new,
           \/ new = sn
           \/ Call[k].id \in DOMAIN events /\ new = [sn EXCEPT ![k] = Get(Call[k].id)],
           NEW j \in DOMAIN Items[r], NEW s \in {"prepare", "check"}
    PROVE  Fits(r, j, s, new)
  <1>1. r # Idle /\ k \in Keys /\ sn \in [Keys -> Versions] /\ r \in sent /\ Imports(r)
    BY ItemTypes DEF Fits
  <1>2. ~Hermes(k)
    BY <1>1, ItemTypes DEF Imports, Hermes
  <1>3. new \in [Keys -> Versions]
    BY <1>1, ReadVersion DEF Versions
  <1>4. \A l \in Keys : l = k \/ new[l] = sn[l]
    BY <1>1
  <1>5. SeenForHermes(new)
    BY <1>1, <1>2, <1>4 DEF Fits, SeenForHermes
  <1>6. \A l \in Keys : new[l] # NoVersion => \E m \in DOMAIN Items[r] : Items[r][m] = l
    BY <1>1, <1>4 DEF Fits
  <1> QED BY <1>1, <1>3, <1>5, <1>6 DEF Fits, Stages

LEMMA PrepareGood ==
    ASSUME IInv, NEW x \in Executors, Prepare(x)
    PROVE  Good
  <1> USE DEF IInv
  <1> DEFINE k == Key(x)
             id == Call[k].id
             reads == Call[k].op = "update" /\ receipts[k] = 0
             active == id \in DOMAIN events /\ events[id].status = "active"
  <1>1. stage[x] = "prepare" /\ UNCHANGED storeVars /\ UNCHANGED clientVars
    BY DEF Prepare
  <1>2. /\ Fits(task[x], item[x], "prepare", seen[x]) /\ task[x] \in Requests
        /\ item[x] \in DOMAIN Items[task[x]] /\ k = Items[task[x]][item[x]] /\ k \in Keys
    BY <1>1, AtWork
  <1>3. CASE reads /\ ~active
    <2>1. Told(x, "inactive", NoVersion) /\ Stop(x)
      BY <1>3 DEF Prepare
    <2>2. Clients'
      BY <1>1, <1>2, <2>1, ToldTypes DEF Outcomes, Versions
    <2>3. Executions'
      BY <1>1, <2>1, StopFits DEF Clients
    <2> QED BY <1>1, <2>2, <2>3 DEF Good
  <1>4. CASE ~(reads /\ ~active)
    <2> SUFFICES ASSUME NEW r, NEW i, NEW sn, NEW l, NEW new, NEW j, NEW s,
                        r = task[x], i = item[x], sn = seen[x], l = k,
                        new = IF reads THEN [sn EXCEPT ![l] = Get(Call[l].id)] ELSE sn,
                        j = IF item[x] < Len(Items[task[x]]) THEN i + 1 ELSE 1,
                        s = IF item[x] < Len(Items[task[x]]) THEN "prepare" ELSE "check"
                 PROVE  Good
      OBVIOUS
    <2>1. /\ Fits(r, i, "prepare", sn) /\ r \in Requests /\ i \in DOMAIN Items[r]
          /\ l = Items[r][i] /\ l \in Keys
      BY <1>2
    <2>2. j \in DOMAIN Items[r]
      BY <2>1, ItemTypes
    <2>3. \/ new = sn
          \/ Call[l].id \in DOMAIN events /\ new = [sn EXCEPT ![l] = Get(Call[l].id)]
      BY <1>4
    <2>4. Fits(r, j, s, new)
      BY <2>1, <2>2, <2>3, PrepareFits
    <2>5. /\ IF reads THEN seen' = [seen EXCEPT ![x][k] = Get(id)] ELSE UNCHANGED seen
          /\ UNCHANGED <<task, answers>>
          /\ IF item[x] < Len(Items[task[x]])
             THEN item' = [item EXCEPT ![x] = @ + 1] /\ UNCHANGED stage
             ELSE item' = [item EXCEPT ![x] = 1] /\ stage' = [stage EXCEPT ![x] = "check"]
      BY <1>4 DEF Prepare
    <2>6. seen' = [seen EXCEPT ![x] = new]
      BY <2>5 DEF Executions
    <2>7. /\ task' = [task EXCEPT ![x] = r] /\ item' = [item EXCEPT ![x] = j]
          /\ stage' = [stage EXCEPT ![x] = s]
      BY <1>1, <2>5 DEF Executions
    <2>8. Executions'
      BY <1>1, <2>4, <2>6, <2>7, OthersFit DEF Clients
    <2> QED BY <1>1, <2>5, <2>8, NothingTold DEF Good
  <1> QED BY <1>3, <1>4

LEMMA CheckGood ==
    ASSUME IInv, NEW x \in Executors, Check(x)
    PROVE  Good
  <1> USE DEF IInv
  <1>1. stage[x] = "check" /\ UNCHANGED storeVars /\ UNCHANGED clientVars
    BY DEF Check
  <1>2. ASSUME NEW out \in {"replayed", "invalid", "duplicate"}, Answer(x, out) PROVE Good
    <2>1. out \in Outcomes
      BY DEF Outcomes
    <2> QED BY <1>1, <1>2, <2>1, AnswerGood, AtWork DEF Good
  <1>3. ASSUME Goto(x, "apply"), UNCHANGED <<seen, answers>> PROVE Good
    <2> SUFFICES ASSUME NEW r, NEW i, NEW sn, r = task[x], i = item[x], sn = seen[x]
                 PROVE  Good
      OBVIOUS
    <2>1. Fits(r, i, "check", sn) /\ r # Idle /\ Call[Items[r][i]].origin = Origin(r)
      BY <1>1, AtWork
    <2>2. Imports(r) /\ ~Hermes(Items[r][i])
      BY <2>1 DEF Fits, Imports, Hermes
    <2>3. Fits(r, i, "apply", sn)
      BY <2>1, <2>2 DEF Fits, Stages
    <2>4. Executions'
      BY <1>1, <1>3, <2>3, GotoFits DEF Clients
    <2> QED BY <1>1, <1>3, <2>4, NothingTold DEF Good
  <1> QED BY <1>2, <1>3 DEF Check

\* A change that matches its target was made for what its execution has seen,
\* and, if it is Hermes', for the version that its request read.
LEMMA MatchingSeen ==
    ASSUME IInv, NEW x \in Executors, task[x] # Idle, NEW k, k = Key(x), Changing(k),
           Matches(Call[k].id, Before(x))
    PROVE  /\ Call[k].id \in DOMAIN events
           /\ seen[x][k] \in EventVersions /\ seen[x][k] # NoVersion
           /\ Snapshot(seen[x][k]) = Snapshot(Get(Call[k].id))
           /\ Hermes(k) => etag[k] = Snapshot(Get(Call[k].id))
  <1> USE DEF IInv
  <1>1. k \in Keys /\ Fits(task[x], item[x], stage[x], seen[x])
    BY AtWork
  <1>2. Call[k].id \in DOMAIN events /\ Snapshot(Get(Call[k].id)) = Before(x)
    BY DEF Matches, ActiveRows, Rows
  <1>3. Before(x) # NoVersion
    BY <1>2, ReadVersion
  <1>4. seen[x][k] # NoVersion /\ Before(x) = Snapshot(seen[x][k])
    BY <1>3 DEF Before
  <1>5. seen[x][k] \in EventVersions
    BY <1>1, <1>4 DEF Executions, Versions
  <1>6. Hermes(k) => Snapshot(seen[x][k]) = etag[k]
    BY <1>1, <1>4 DEF Fits, SeenForHermes
  <1> QED BY <1>2, <1>4, <1>5, <1>6

\* Moved to midnight, a content is one still.
LEMMA ProposalType ==
    ASSUME NEW x \in Executors, Body(Key(x), seen[x][Key(x)]) \in Contents(Rules)
    PROVE  Proposal(x) \in Contents(Rules)
  BY DEF Proposal, AtMidnight, Contents

\* The proposal of an execution is of the type the store takes.
LEMMA ApplyStep ==
    ASSUME IInv, NEW x \in Executors, task[x] # Idle, NEW k, k = Key(x),
           NEW out \in Outcomes, ApplyAll(k, Proposal(x), Before(x), out)
    PROVE  [StoreNext]_storeVars
  <1> USE DEF IInv
  <1>1. k \in Keys
    BY AtWork
  <1>2. Call[k].op = "create" => Proposal(x) \in Contents(Rules)
    BY <1>1, BodyType, ProposalType
  <1>3. ASSUME Call[k].op = "update", Matches(Call[k].id, Before(x))
        PROVE  Proposal(x) \in Contents(Rules)
    <2>1. /\ Call[k].id \in DOMAIN events /\ seen[x][k] \in EventVersions
          /\ Hermes(k) => etag[k] = Snapshot(Get(Call[k].id))
      BY <1>3, MatchingSeen DEF Changing
    <2>2. Hermes(k) => etag[k] \in EventVersions
      BY <2>1, ReadVersion
    <2> QED BY <1>1, <1>3, <2>1, <2>2, BodyType, ProposalType
  <1> HIDE DEF IInv
  <1>4. StoreTypeOK
    BY DEF IInv
  <1> QED BY <1>1, <1>2, <1>3, <1>4, ApplyIsStep

\* The versions an update answers with are versions of what it leaves.
LEMMA AnsweredTypes ==
    ASSUME StoreTypeOK', NEW k \in Keys, Call[k].id \in DOMAIN events',
           NEW v \in AnsweredVersions(k), Hermes(k) => etag[k] \in EventVersions
    PROVE  v \in Versions
  <1>1. CASE v = NoVersion
    BY <1>1 DEF Versions
  <1>2. CASE v # NoVersion
    <2> DEFINE id == Call[k].id
               row == events'[id]
               raw == AtMidnight(Body(k, etag[k])).raw
    <2>1. PICK s \in {"active", "none"} :
             v = [Snapshot(EventOf(id, row)) EXCEPT !.status = s, !.content.raw = raw]
      BY <1>2 DEF AnsweredVersions
    <2>7. raw \in SUBSET Raw
      <3>1. Call[k].op = "update" /\ Hermes(k)
        BY <1>2 DEF AnsweredVersions, Hermes
      <3>2. Body(k, etag[k]) \in Contents(Rules)
        BY <3>1, BodyType
      <3> QED BY <3>2 DEF AtMidnight, Contents
    <2>2. row \in Event /\ id \in Nat
      <3>1. events' \in Seq(Event)
        BY DEF StoreTypeOK
      <3> QED BY <3>1, ElementOfSeq, LenProperties
    <2>3. row.content \in Contents(StoredRules) /\ row.excluded \in SUBSET Dates
      BY <2>2 DEF Event, StoredContents
    <2>4. v = [id |-> id, content |-> [AsJSON(row.content) EXCEPT !.raw = raw],
               status |-> s, excluded |-> row.excluded]
      <3> HIDE DEF row, id, raw
      <3> QED BY <2>1 DEF Snapshot, EventOf
    <2>5. [AsJSON(row.content) EXCEPT !.raw = raw] \in Contents(StoredRules)
      <3>1. AsJSON(row.content) \in Contents(StoredRules)
        BY <2>3, JSONStored
      <3> HIDE DEF row, raw
      <3> QED BY <2>7, <3>1 DEF Contents
    <2> HIDE DEF row, id, raw
    <2>6. v \in EventVersions
      BY <2>2, <2>3, <2>4, <2>5 DEF EventVersions, Statuses
    <2> QED BY <2>6 DEF Versions
  <1> QED BY <1>1, <1>2

LEMMA ApplyGood ==
    ASSUME IInv, NEW x \in Executors, Apply(x)
    PROVE  Good
  <1> SUFFICES ASSUME NEW k, k = Key(x) PROVE Good
    OBVIOUS
  <1>1. stage[x] = "apply" /\ UNCHANGED clientVars /\ Advance(x)
    BY DEF Apply
  <1>2. PICK out \in Outcomes :
           /\ ApplyAll(k, Proposal(x), Before(x), out)
           /\ \E v \in IF out = "applied" THEN AnsweredVersions(k) ELSE {NoVersion} :
                 Told(x, out, v)
    BY DEF Apply
  <1>3. PICK v \in IF out = "applied" THEN AnsweredVersions(k) ELSE {NoVersion} :
           Told(x, out, v)
    BY <1>2
  <1>4. k \in Keys /\ task[x] # Idle
    BY <1>1, AtWork DEF IInv
  <1>5. [StoreNext]_storeVars
    BY <1>2, <1>4, ApplyStep
  <1>6. StoreTypeOK' /\ DOMAIN events \subseteq DOMAIN events'
    BY <1>5, StoreStepTypes DEF IInv
  <1>7. v \in Versions
    <2>1. CASE v = NoVersion
      BY <2>1 DEF Versions
    <2>2. CASE v # NoVersion
      <3>1. out = "applied" /\ v \in AnsweredVersions(k)
        BY <1>3, <2>2
      <3>2. Call[k].op = "update"
        BY <2>2, <3>1 DEF AnsweredVersions
      <3>3. Matches(Call[k].id, Before(x))
        BY <1>2, <3>1, <3>2 DEF ApplyAll, ApplyNew
      <3>4. /\ Call[k].id \in DOMAIN events
            /\ Hermes(k) => etag[k] = Snapshot(Get(Call[k].id))
        BY <1>4, <3>2, <3>3, MatchingSeen DEF Changing
      <3>5. Hermes(k) => etag[k] \in EventVersions
        BY <3>4, ReadVersion DEF IInv
      <3> QED BY <1>4, <1>6, <3>1, <3>4, <3>5, AnsweredTypes
    <2> QED BY <2>1, <2>2
  <1>8. Clients'
    BY <1>1, <1>3, <1>4, <1>7, ToldTypes DEF IInv
  <1>9. Executions'
    BY <1>1, <1>4, AdvanceFits DEF IInv
  <1> QED BY <1>5, <1>8, <1>9 DEF Good

LEMMA CreateGood ==
    ASSUME IInv, NEW x \in Executors, CreateExternal(x)
    PROVE  Good
  <1> SUFFICES ASSUME NEW k, k = Key(x) PROVE Good
    OBVIOUS
  <1>1. PICK out \in Outcomes : Create(k, Input[k], out) /\ Answer(x, out)
    BY DEF CreateExternal
  <1>2. k \in Keys /\ task[x] # Idle /\ UNCHANGED clientVars
    BY AtWork DEF IInv, CreateExternal
  <1>3. Clients' /\ Executions'
    BY <1>1, <1>2, AnswerGood DEF IInv
  <1>4. Input[k] \in Contents(Rules)
    <2>1. Input[k] \in Asked
      BY <1>1, <1>2, RequestsAssumption DEF Create
    <2> QED BY <2>1 DEF Asked, Contents, Rules
  <1>5. StoreNext
    BY <1>1, <1>2, <1>4 DEF StoreNext
  <1> QED BY <1>3, <1>5 DEF Good

LEMMA ExcludeGood ==
    ASSUME IInv, NEW x \in Executors, Exclude(x)
    PROVE  Good
  <1> SUFFICES ASSUME NEW k, k = Key(x) PROVE Good
    OBVIOUS
  <1>1. PICK out \in Outcomes : ExcludeOccurrence(k, etag[k], out) /\ Answer(x, out)
    BY DEF Exclude
  <1>2. k \in Keys /\ task[x] # Idle /\ UNCHANGED clientVars
    BY AtWork DEF IInv, Exclude
  <1>3. Clients' /\ Executions'
    BY <1>1, <1>2, AnswerGood DEF IInv
  <1> QED BY <1>1, <1>2, <1>3, ExcludeIsStep DEF Good

LEMMA FailsGood ==
    ASSUME IInv, NEW x \in Executors, Fails(x)
    PROVE  Good
  <1>1. /\ task[x] # Idle
        /\ Stop(x) \/ Advance(x)
        /\ UNCHANGED storeVars /\ UNCHANGED clientVars
        /\ Told(x, "blamed", NoVersion) \/ UNCHANGED answers
    BY DEF Fails
  <1>2. Executions'
    BY <1>1, StopFits, AdvanceFits DEF IInv, Clients
  <1>3. Clients'
    <2>1. Key(x) \in Keys /\ NoVersion \in Versions
      BY <1>1, AtWork DEF IInv, Versions
    <2> QED BY <1>1, <2>1, ToldTypes, NothingTold DEF IInv
  <1> QED BY <1>1, <1>2, <1>3 DEF Good

-----------------------------------------------------------------------------
(* The steps of the clients, and the end of the process.                   *)

\* Hermes reads an event only for a request it has not sent.
LEMMA ClientReadsGood ==
    ASSUME IInv, NEW r \in Requests, NEW k \in Keys, ClientReads(r, k)
    PROVE  Good
  <1> DEFINE now == Snapshot(Get(Call[k].id))
  <1>1. /\ r \notin sent /\ Call[k].id \in DOMAIN events
        /\ etag' = [etag EXCEPT ![k] = now]
        /\ UNCHANGED storeVars /\ UNCHANGED sent /\ UNCHANGED executorVars
        /\ UNCHANGED answers
    BY DEF ClientReads
  <1>2. PICK i \in DOMAIN Items[r] : Items[r][i] = k
    BY DEF ClientReads
  <1>3. now \in Versions
    BY <1>1, ReadVersion DEF IInv, Versions
  <1> HIDE DEF now
  <1>4. Clients'
    BY <1>1, <1>3 DEF IInv, Clients
  <1>5. ASSUME NEW q, NEW j, NEW t, NEW tn, Fits(q, j, t, tn) PROVE Fits(q, j, t, tn)'
    <2>1. CASE q = Idle
      BY <1>5, <2>1 DEF Fits
    <2>2. CASE q # Idle
      <3>1. q \in Requests /\ q \in sent /\ q # r
        BY <1>1, <1>5, <2>2 DEF Fits, IInv, Clients
      <3>2. tn[k] = NoVersion
        BY <1>2, <1>5, <2>2, <3>1, OneItem DEF Fits
      <3>3. \A l \in Keys : l = k \/ etag'[l] = etag[l]
        BY <1>1 DEF IInv, Clients
      <3>4. SeenForHermes(tn)'
        BY <1>5, <2>2, <3>2, <3>3 DEF Fits, SeenForHermes
      <3> QED BY <1>1, <1>5, <2>2, <3>4 DEF Fits
    <2> QED BY <2>1, <2>2
  <1>6. Executions'
    <2>1. UNCHANGED <<task, item, stage, seen>>
      BY <1>1 DEF executorVars
    <2>2. ASSUME NEW x \in Executors PROVE Fits(task[x], item[x], stage[x], seen[x])'
      <3> SUFFICES ASSUME NEW q, NEW j, NEW t, NEW tn,
                          q = task[x], j = item[x], t = stage[x], tn = seen[x]
                   PROVE  Fits(task[x], item[x], stage[x], seen[x])'
        OBVIOUS
      <3>1. Fits(q, j, t, tn)'
        BY <1>5 DEF IInv, Executions
      <3> QED BY <2>1, <3>1
    <2> QED BY <2>1, <2>2 DEF IInv, Executions
  <1> QED BY <1>1, <1>4, <1>6 DEF Good

LEMMA SendGood ==
    ASSUME IInv, NEW x \in Executors, NEW r \in Requests, Send(x, r)
    PROVE  Good
  <1> DEFINE first == IF Imports(r) THEN "prepare" ELSE Entry(r, 1)
  <1>1. /\ task[x] = Idle /\ sent' = sent \cup {r}
        /\ task' = [task EXCEPT ![x] = r] /\ stage' = [stage EXCEPT ![x] = first]
        /\ UNCHANGED storeVars /\ UNCHANGED <<etag, item, seen, answers>>
    BY DEF Send
  <1>2. Clients'
    BY <1>1 DEF IInv, Clients
  <1>3. item[x] = 1 /\ seen[x] = NothingSeen
    BY <1>1 DEF IInv, Executions, Fits
  <1>4. 1 \in DOMAIN Items[r] /\ Items[r][1] \in Keys /\ r # Idle
    BY ItemTypes
  <1>5. Call[Items[r][1]].op \in Operations
    BY <1>4, CallTypes
  <1>6. /\ first \in Stages \ {"check", "apply"}
        /\ first = "prepare" => Imports(r)
        /\ first = "read" => Call[Items[r][1]].op # "create"
    BY <1>5 DEF Entry, Stages, Operations
  <1> HIDE DEF first
  <1>7. NothingSeen \in [Keys -> Versions] /\ \A k \in Keys : NothingSeen[k] = NoVersion
    BY DEF NothingSeen, Versions
  <1>8. r \in sent'
    BY <1>1
  <1>9. SeenForHermes(NothingSeen)'
    BY <1>7 DEF SeenForHermes, NothingSeen
  <1>10. ASSUME NEW n, n = NothingSeen PROVE Fits(r, 1, first, n)'
    <2>1. SeenForHermes(n)'
      BY <1>9, <1>10 DEF SeenForHermes
    <2>2. n \in [Keys -> Versions] /\ \A k \in Keys : n[k] = NoVersion
      BY <1>7, <1>10
    <2> QED BY <1>4, <1>6, <1>8, <2>1, <2>2 DEF Fits
  <1>11. ASSUME NEW q, NEW j, NEW t, NEW tn, Fits(q, j, t, tn) PROVE Fits(q, j, t, tn)'
    BY <1>1, <1>11 DEF Fits, SeenForHermes
  <1>12. ASSUME NEW y \in Executors PROVE Fits(task[y], item[y], stage[y], seen[y])'
    <2>1. CASE y = x
      <3> SUFFICES ASSUME NEW n, n = NothingSeen
                   PROVE  Fits(task[y], item[y], stage[y], seen[y])'
        OBVIOUS
      <3>1. task'[y] = r /\ item'[y] = 1 /\ stage'[y] = first /\ seen'[y] = n
        BY <1>1, <1>3, <2>1 DEF IInv, Executions
      <3>2. Fits(r, 1, first, n)'
        BY <1>10
      <3> QED BY <3>1, <3>2
    <2>2. CASE y # x
      <3> SUFFICES ASSUME NEW q, NEW j, NEW t, NEW tn,
                          q = task[y], j = item[y], t = stage[y], tn = seen[y]
                   PROVE  Fits(task[y], item[y], stage[y], seen[y])'
        OBVIOUS
      <3>1. Fits(q, j, t, tn)'
        BY <1>11 DEF IInv, Executions
      <3>2. task'[y] = q /\ item'[y] = j /\ stage'[y] = t /\ seen'[y] = tn
        BY <1>1, <2>2 DEF IInv, Executions
      <3> QED BY <3>1, <3>2
    <2> QED BY <2>1, <2>2
  <1>13. /\ task' \in [Executors -> Requests \cup {Idle}] /\ item' \in [Executors -> Nat]
         /\ stage' \in [Executors -> Stages \cup {"idle"}]
         /\ seen' \in [Executors -> [Keys -> Versions]]
    BY <1>1, <1>6 DEF IInv, Executions
  <1>14. Executions'
    BY <1>12, <1>13 DEF Executions
  <1> QED BY <1>1, <1>2, <1>14 DEF Good

LEMMA CrashGood ==
    ASSUME IInv, Crash
    PROVE  Good
  <1>1. /\ task' = [x \in Executors |-> Idle] /\ item' = [x \in Executors |-> 1]
        /\ stage' = [x \in Executors |-> "idle"] /\ seen' = [x \in Executors |-> NothingSeen]
        /\ UNCHANGED storeVars /\ UNCHANGED clientVars /\ UNCHANGED answers
    BY DEF Crash, NothingSeen
  <1>2. NothingSeen \in [Keys -> Versions]
    BY DEF NothingSeen, Versions
  <1>3. Executions'
    BY <1>1, <1>2 DEF Executions, Fits, NothingSeen
  <1> QED BY <1>1, <1>3, NothingTold DEF IInv, Good

LEMMA StepGood ==
    ASSUME IInv, NEW x \in Executors, Step(x)
    PROVE  Good
  BY LookupGood, ReadGood, PrepareGood, CheckGood, ApplyGood, CreateGood, ExcludeGood,
     FailsGood DEF Step

LEMMA NextGood ==
    ASSUME IInv, [Next]_requestVars
    PROVE  IInv' /\ [StoreNext]_storeVars
  <1>1. Good
    <2>1. CASE UNCHANGED requestVars
      <3>1. UNCHANGED storeVars /\ UNCHANGED clientVars /\ UNCHANGED answers
            /\ UNCHANGED <<task, item, stage, seen>>
        BY <2>1 DEF requestVars, executorVars
      <3>2. Executions'
        BY <3>1 DEF IInv, Executions, Fits, SeenForHermes, clientVars
      <3> QED BY <3>1, <3>2, NothingTold DEF IInv, Good
    <2> QED BY <2>1, StepGood, ClientReadsGood, SendGood, CrashGood DEF Next
  <1> QED BY <1>1, StoreStepTypes DEF Good, IInv

-----------------------------------------------------------------------------
(* The invariant, and the store under its callers.                         *)

\* The types of the tables and of the callers' state, and where an execution
\* can be: at an item of its own request, having seen versions of its own
\* targets, Hermes' being those its request was written for.
THEOREM RequestsIInvHolds == Spec => []IInv
  <1>1. Init => IInv
    <2> SUFFICES ASSUME Init PROVE IInv
      OBVIOUS
    <2>1. StoreTypeOK
      BY InitTypes DEF Init
    <2>2. Clients
      BY DEF Init, Clients, Versions
    <2>3. NothingSeen \in [Keys -> Versions]
      BY DEF NothingSeen, Versions
    <2>4. Executions
      BY <2>3 DEF Init, Executions, Fits, NothingSeen
    <2> QED BY <2>1, <2>2, <2>4 DEF IInv
  <1> QED BY <1>1, NextGood, PTL DEF Spec

\* The callers use the store only through its transactions: every behaviour of
\* theirs, with stale reads, retries, overlaps and restarts, is one of the
\* store's, so what is proved of the store holds under them.
THEOREM RequestsImplementStore == Spec => ImplementsStore
  <1>1. Init => StoreInit
    BY DEF Init
  <1>2. IInv /\ [Next]_requestVars => [StoreNext]_storeVars
    BY NextGood
  <1> QED BY <1>1, <1>2, RequestsIInvHolds, PTL DEF Spec, ImplementsStore, StoreSpec

-----------------------------------------------------------------------------
(* What a step tells and logs.                                             *)

\* A step that tells nothing gives no new answer, and one that tells gives the
\* one it tells.
LEMMA NoNewAnswers ==
    ASSUME UNCHANGED answers, NEW k
    PROVE  NewAnswers(k) = {}
  BY DEF NewAnswers

LEMMA OneNewAnswer ==
    ASSUME Clients, NEW x \in Executors, NEW out, NEW version, Told(x, out, version),
           NEW k \in Keys, NEW a \in NewAnswers(k)
    PROVE  k = Key(x) /\ a = out
  <1>1. PICK b \in answers'[k] \ answers[k] : a = b[1]
    BY DEF NewAnswers
  <1>2. answers' = [answers EXCEPT ![Key(x)] = @ \cup {<<out, version>>}]
    BY DEF Told
  <1>3. k = Key(x) /\ b = <<out, version>>
    BY <1>1, <1>2 DEF Clients
  <1> QED BY <1>1, <1>3

\* The change that is logged is the last one.
LEMMA LoggedLast ==
    ASSUME StoreTypeOK, NEW k, NEW id, NEW c, Logged(k, id, c)
    PROVE  changes'[Len(changes')].by = k
  <1> DEFINE entry == [op |-> Call[k].op, id |-> id, content |-> AsJSON(c),
                       date |-> Call[k].date, by |-> k]
             All == Change \cup {entry}
  <1>1. changes' = Append(changes, entry)
    BY DEF Logged
  <1>2. changes \in Seq(Change) /\ entry.by = k /\ entry \in All
    BY DEF StoreTypeOK
  <1>3. changes \in Seq(All)
    <2>1. \A i \in 1 .. Len(changes) : changes[i] \in All
      BY <1>2, ElementOfSeq
    <2>2. changes \in [1 .. Len(changes) -> All] /\ Len(changes) \in Nat
      BY <1>2, <2>1, LenProperties
    <2> QED BY <2>2, SeqDef
  <1> HIDE DEF entry, All
  <1>4. changes'[Len(changes) + 1] = entry /\ Len(changes') = Len(changes) + 1
    BY ONLY <1>1, <1>2, <1>3, AppendProperties
  <1> QED BY <1>2, <1>4

\* A proposal that writes a change was found and is the last change.
LEMMA ApplyLogs ==
    ASSUME StoreTypeOK, NEW k \in Keys, NEW d, NEW before, NEW out,
           ApplyAll(k, d, before, out), changes' # changes
    PROVE  /\ out = "applied" /\ receipts[k] = 0 /\ sources[k] = 0
           /\ Call[k].op = "create" \/ Matches(Call[k].id, before)
           /\ Written(k, Proposed(k, d, before))
           /\ changes'[Len(changes')].by = k
  <1>1. ~UNCHANGED storeVars
    BY DEF storeVars
  <1>2. /\ out = "applied" /\ receipts[k] = 0 /\ sources[k] = 0
        /\ Call[k].op = "create" \/ Matches(Call[k].id, before)
        /\ Written(k, Proposed(k, d, before))
    BY <1>1 DEF ApplyAll, ApplyNew
  <1> QED BY <1>2, LoggedLast DEF Written

\* A creation of Hermes, or an exclusion, changes no receipt.
LEMMA CreateLogs ==
    ASSUME StoreTypeOK, NEW k \in Keys, NEW d, NEW out, Create(k, d, out)
    PROVE  /\ Call[k].op = "create" /\ Hermes(k) /\ UNCHANGED receipts
           /\ changes' # changes => /\ Valid(AtMidnight(Normalized(d)))
                                    /\ sources' = [sources EXCEPT ![k] = Len(events) + 1]
                                    /\ changes'[Len(changes')].by = k
  <1>1. Call[k].op = "create" /\ Hermes(k) /\ UNCHANGED receipts
    BY DEF Create, Hermes, storeVars
  <1>2. ASSUME changes' # changes
        PROVE  /\ Valid(AtMidnight(Normalized(d)))
               /\ sources' = [sources EXCEPT ![k] = Len(events) + 1]
               /\ Logged(k, Len(events) + 1, AtMidnight(Normalized(d)))
    BY <1>2 DEF Create, storeVars
  <1> QED BY <1>1, <1>2, LoggedLast

LEMMA ExcludeLogs ==
    ASSUME StoreTypeOK, NEW k \in Keys, NEW version, NEW out,
           ExcludeOccurrence(k, version, out)
    PROVE  /\ Call[k].op = "exclude" /\ UNCHANGED receipts
           /\ changes' # changes => changes'[Len(changes')].by = k
  <1>1. Call[k].op = "exclude" /\ UNCHANGED receipts
    BY DEF ExcludeOccurrence, storeVars
  <1>2. ASSUME changes' # changes
        PROVE  Logged(k, Call[k].id, events[Call[k].id].content)
    BY <1>2 DEF ExcludeOccurrence, Excluded, storeVars
  <1> QED BY <1>1, <1>2, LoggedLast

-----------------------------------------------------------------------------
(* Nobody overwrites what he has not seen.                                 *)

\* What the property says of a step.
SeenWhenChanged ==
    \A k \in Keys :
        TakesEffect(k) /\ Changing(k) =>
            LET now == Snapshot(Get(Call[k].id)) IN
            IF Hermes(k) THEN etag[k] = now
            ELSE \E x \in Executors : seen[x][k] # NoVersion /\ Snapshot(seen[x][k]) = now

LEMMA ApplySeen ==
    ASSUME IInv, NEW x \in Executors, Apply(x)
    PROVE  SeenWhenChanged
  <1> SUFFICES ASSUME NEW k \in Keys, TakesEffect(k), Changing(k)
               PROVE  IF Hermes(k) THEN etag[k] = Snapshot(Get(Call[k].id))
                      ELSE \E y \in Executors : /\ seen[y][k] # NoVersion
                                                /\ Snapshot(seen[y][k]) = Snapshot(Get(Call[k].id))
    BY DEF SeenWhenChanged
  <1>1. task[x] # Idle /\ Key(x) \in Keys
    BY AtWork DEF IInv, Apply
  <1>2. PICK out \in Outcomes : ApplyAll(Key(x), Proposal(x), Before(x), out)
    BY DEF Apply
  <1>3. changes' # changes /\ changes'[Len(changes')].by = k
    BY DEF TakesEffect
  <1>4. /\ k = Key(x)
        /\ Call[k].op = "create" \/ Matches(Call[k].id, Before(x))
    BY <1>1, <1>2, <1>3, ApplyLogs DEF IInv
  <1>5. Matches(Call[k].id, Before(x))
    BY <1>4 DEF Changing
  <1> QED BY <1>1, <1>4, <1>5, MatchingSeen

\* Whoever changes an event saw the version that is changed: Hermes before it
\* sent its request, the agent's tool before it wrote, for any number of
\* requests and executions.
THEOREM ChangesApplyToSeenVersions == Spec => AppliesToSeenVersion
  <1>1. ASSUME IInv, [Next]_requestVars, ~UNCHANGED requestVars PROVE SeenWhenChanged
    <2>1. ASSUME UNCHANGED storeVars PROVE SeenWhenChanged
      BY <2>1 DEF SeenWhenChanged, TakesEffect, storeVars
    <2>2. ASSUME NEW x \in Executors, CreateExternal(x) PROVE SeenWhenChanged
      <3>1. Key(x) \in Keys
        BY <1>1, <2>2, AtWork DEF IInv, CreateExternal
      <3>2. /\ Call[Key(x)].op = "create"
            /\ changes' # changes => changes'[Len(changes')].by = Key(x)
        BY <1>1, <2>2, <3>1, CreateLogs DEF IInv, CreateExternal
      <3> QED BY <3>2 DEF SeenWhenChanged, TakesEffect, Changing
    <2>3. ASSUME NEW x \in Executors, Exclude(x) PROVE SeenWhenChanged
      <3>1. Key(x) \in Keys
        BY <1>1, <2>3, AtWork DEF IInv, Exclude
      <3>2. /\ Call[Key(x)].op = "exclude"
            /\ changes' # changes => changes'[Len(changes')].by = Key(x)
        BY <1>1, <2>3, <3>1, ExcludeLogs DEF IInv, Exclude
      <3> QED BY <3>2 DEF SeenWhenChanged, TakesEffect, Changing
    <2>4. ASSUME NEW x \in Executors, Step(x) PROVE SeenWhenChanged
      <3>1. CASE Apply(x)
        BY <1>1, <3>1, ApplySeen
      <3>2. CASE Lookup(x) \/ Read(x) \/ Prepare(x) \/ Check(x) \/ Fails(x)
        BY <2>1, <3>2 DEF Lookup, Read, Prepare, Check, Fails
      <3> QED BY <2>2, <2>3, <2>4, <3>1, <3>2 DEF Step
    <2>5. CASE \/ \E r \in Requests, k \in Keys : ClientReads(r, k)
               \/ \E x \in Executors, r \in Requests : Send(x, r)
               \/ Crash
      BY <2>1, <2>5 DEF ClientReads, Send, Crash
    <2> QED BY <1>1, <2>4, <2>5 DEF Next
  <1>2. SeenWhenChanged =>
          \A k \in Keys :
             TakesEffect(k) /\ Call[k].op \in {"update", "cancel"} =>
                 LET now == Snapshot(Get(Call[k].id)) IN
                 IF Call[k].origin = "hermes" THEN etag[k] = now
                 ELSE \E x \in Executors : seen[x][k] # NoVersion /\ Snapshot(seen[x][k]) = now
    BY DEF SeenWhenChanged, Changing, Hermes
  <1>3. IInv /\ [Next]_requestVars =>
          [\A k \in Keys :
             TakesEffect(k) /\ Call[k].op \in {"update", "cancel"} =>
                 LET now == Snapshot(Get(Call[k].id)) IN
                 IF Call[k].origin = "hermes" THEN etag[k] = now
                 ELSE \E x \in Executors : seen[x][k] # NoVersion
                                           /\ Snapshot(seen[x][k]) = now]_requestVars
    BY <1>1, <1>2
  <1> QED BY <1>3, RequestsIInvHolds, PTL DEF Spec, AppliesToSeenVersion

-----------------------------------------------------------------------------
(* 412 is for stale clients.                                               *)

RefusedStale == \A k \in Keys : UpToDate(k) => "stale" \notin NewAnswers(k)

\* The version of a series without tags is the same in the transaction.
LEMMA UntaggedVersion ==
    ASSUME StoreTypeOK, Tags = {}, NEW i \in DOMAIN events
    PROVE  VersionInTx(i) = Snapshot(Get(i))
  <1> DEFINE c == events[i].content
  <1>1. c \in Contents(StoredRules) /\ c.tags = {}
    <2>1. c \in Contents(StoredRules)
      BY RowType DEF Event, StoredContents
    <2> QED BY <2>1 DEF Contents
  <1>2. [c EXCEPT !.tags = {}] = c
    BY <1>1 DEF Contents
  <1>3. Get(i) = [id |-> i, content |-> c, status |-> events[i].status,
                  excluded |-> events[i].excluded]
    BY DEF Get, EventOf
  <1>4. [Get(i) EXCEPT !.content.tags = {}]
          = [id |-> i, content |-> [c EXCEPT !.tags = {}], status |-> events[i].status,
             excluded |-> events[i].excluded]
    <2> HIDE DEF c
    <2> QED BY ONLY <1>3
  <1>5. [Get(i) EXCEPT !.content.tags = {}] = Get(i)
    <2> HIDE DEF c
    <2> QED BY ONLY <1>2, <1>3, <1>4
  <1> QED BY <1>5 DEF VersionInTx

LEMMA StepRefusesStale ==
    ASSUME IInv, NEW x \in Executors, Step(x),
           Tags = {} \/ \A k \in Keys : Hermes(k) => Call[k].op # "exclude"
    PROVE  RefusedStale
  <1> SUFFICES ASSUME NEW k \in Keys, UpToDate(k), "stale" \in NewAnswers(k)
               PROVE  FALSE
    BY DEF RefusedStale
  <1> DEFINE id == Call[k].id
  <1>1. /\ id \in DOMAIN events /\ id \in ActiveRows /\ Hermes(k)
        /\ etag[k] = Snapshot(Get(id)) /\ etag[k] # NoVersion
    <2>1. id \in DOMAIN events /\ id \in ActiveRows /\ Hermes(k) /\ etag[k] = Snapshot(Get(id))
      BY DEF UpToDate, ActiveRows, Rows, Hermes
    <2> QED BY <2>1, ReadVersion, NoVersionAssumption DEF IInv
  <1>2. ASSUME NEW out, NEW version, Told(x, out, version)
        PROVE  k = Key(x) /\ out = "stale"
    BY <1>2, OneNewAnswer DEF IInv
  <1>3. ~UNCHANGED answers
    BY NoNewAnswers
  <1>4. CASE Read(x)
    <2>1. PICK out \in Refusal(Key(x)) : Told(x, out, NoVersion)
      BY <1>3, <1>4 DEF Read, Answer
    <2>2. "stale" \in Refusal(k)
      BY <1>2, <2>1
    <2> QED BY <1>1, <2>2 DEF Refusal
  <1>5. CASE Apply(x)
    <2>1. PICK out \in Outcomes :
             /\ ApplyAll(Key(x), Proposal(x), Before(x), out)
             /\ \E v \in IF out = "applied" THEN AnsweredVersions(Key(x)) ELSE {NoVersion} :
                   Told(x, out, v)
      BY <1>5 DEF Apply
    <2>2. k = Key(x) /\ out = "stale"
      BY <1>2, <2>1
    <2>3. ~Matches(id, Before(x))
      BY <2>1, <2>2 DEF ApplyAll, ApplyNew
    <2>4. Fits(task[x], item[x], "apply", seen[x]) /\ task[x] # Idle
          /\ k = Items[task[x]][item[x]]
      BY <1>5, <2>2, AtWork DEF IInv, Apply
    <2>5. Changing(k) /\ seen[x][k] # NoVersion
      BY <1>1, <2>4 DEF Fits
    <2>6. Before(x) = Snapshot(seen[x][k])
      BY <2>2, <2>5 DEF Before
    <2>7. Snapshot(seen[x][k]) = etag[k]
      BY <1>1, <2>4, <2>5 DEF Fits, SeenForHermes
    <2> QED BY <1>1, <2>3, <2>6, <2>7 DEF Matches
  <1>6. CASE Exclude(x)
    <2>1. PICK out \in Outcomes : ExcludeOccurrence(Key(x), etag[Key(x)], out)
                                  /\ Told(x, out, NoVersion)
      BY <1>6 DEF Exclude, Answer
    <2>2. k = Key(x) /\ out = "stale"
      BY <1>2, <2>1
    <2>3. Call[k].op = "exclude" /\ etag[k] # VersionInTx(id)
      BY <2>1, <2>2 DEF ExcludeOccurrence
    <2>4. Tags = {}
      BY <1>1, <2>3
    <2> QED BY <1>1, <2>3, <2>4, UntaggedVersion DEF IInv
  <1>7. CASE CreateExternal(x)
    <2>1. PICK out \in Outcomes : Create(Key(x), Input[Key(x)], out) /\ Told(x, out, NoVersion)
      BY <1>7 DEF CreateExternal, Answer
    <2>2. out = "stale"
      BY <1>2, <2>1
    <2> QED BY <2>1, <2>2 DEF Create
  <1>8. CASE Lookup(x) \/ Prepare(x) \/ Check(x) \/ Fails(x)
    <2>1. \/ UNCHANGED answers
          \/ \E out \in {"replayed", "inactive", "invalid", "duplicate", "blamed"} :
                Told(x, out, NoVersion)
      BY <1>8 DEF Lookup, Prepare, Check, Fails, Answer
    <2> QED BY <1>2, <1>3, <2>1
  <1> QED BY <1>4, <1>5, <1>6, <1>7, <1>8 DEF Step

\* A client whose version of an active event is the present one is not told that
\* it is stale, as long as no statement fails (DELETE answers 412 to that, too),
\* unless it excludes an occurrence of a series with tags: there the property
\* fails, as a configuration shows.
THEOREM RefusalsAreOfStaleClients ==
    Tags = {} \/ (\A k \in Keys : Hermes(k) => Call[k].op # "exclude")
        => (Spec => RefusedOnlyIfStale)
  <1> SUFFICES ASSUME Tags = {} \/ \A k \in Keys : Hermes(k) => Call[k].op # "exclude"
               PROVE  Spec => RefusedOnlyIfStale
    OBVIOUS
  <1>1. ASSUME IInv, Next PROVE RefusedStale
    <2>1. ASSUME UNCHANGED answers PROVE RefusedStale
      BY <2>1, NoNewAnswers DEF RefusedStale
    <2> QED BY <1>1, <2>1, StepRefusesStale DEF Next, ClientReads, Send, Crash
  <1>2. IInv /\ [Next]_requestVars =>
          [\A k \in Keys : UpToDate(k) => "stale" \notin NewAnswers(k)]_requestVars
    BY <1>1 DEF RefusedStale
  <1> QED BY <1>2, RequestsIInvHolds, PTL DEF Spec, RefusedOnlyIfStale

-----------------------------------------------------------------------------
(* A retry of what was applied is not refused.  With two executions of one  *)
(* request it can be: the second looks for the stored result before the     *)
(* first has written it.  And an exclusion leaves no stored result.         *)

\* No two executions are of one request; for the agent's they never are.
OneAtATime ==
    \A x, y \in Executors : task[x] # Idle /\ task[x] = task[y] => x = y

NoExclusions == \A k \in Keys : Call[k].op # "exclude"

\* A mutation of this kind leaves a stored result, the others a source row.
KeepsResult(k) == Changing(k) \/ (Call[k].op = "create" /\ ~Hermes(k))

\* What an applied mutation has left.
AppliedLeaves ==
    \A n \in DOMAIN changes :
        LET k == changes[n].by IN
        /\ KeepsResult(k) => receipts[k] # 0
        /\ Call[k].op = "create" /\ Hermes(k) => sources[k] # 0 /\ Valid(AtMidnight(Normalized(Input[k])))

\* An execution past the lookup has found no stored result, and there is none.
FreshAt(r, i, s) == s \in {"read", "apply"} => receipts[Items[r][i]] = 0

Fresh == \A x \in Executors : FreshAt(task[x], item[x], stage[x])

\* A stored result stays.
LEMMA ReceiptsStay ==
    ASSUME StoreInv, Effect
    PROVE  \A k \in Keys : receipts[k] # 0 => receipts'[k] # 0
  <1>1. DOMAIN receipts = Keys /\ \A i \in DOMAIN events : i # 0
    BY EventIds DEF StoreInv, StoreTypeOK
  <1>2. Len(events) + 1 # 0
    BY RowType DEF StoreInv
  <1>3. \A k \in Keys : receipts[k] # 0 => sources[k] # 0
    BY DEF StoreInv, ReceiptsAgree
  <1>4. \/ UNCHANGED receipts
        \/ \E k \in Keys, i \in DOMAIN events \cup {Len(events) + 1} :
              receipts' = [receipts EXCEPT ![k] = i]
        \/ \E k \in Keys : receipts' = [receipts EXCEPT ![k] = sources[k]]
    BY DEF Effect, Adds, Rewrites, Withdraws, Touches, LeavesOut, OnlyAnswers,
           ActiveRows, Rows
  <1> QED BY <1>1, <1>2, <1>3, <1>4

LEMMA RowsStay ==
    ASSUME StoreInv, [StoreNext]_storeVars
    PROVE  \A k \in Keys : /\ receipts[k] # 0 => receipts'[k] # 0
                           /\ sources[k] # 0 => sources'[k] # 0
  <1>1. CASE StoreNext
    BY <1>1, StepHasEffect, ReceiptsStay, SourcesStay DEF StoreInv
  <1>2. CASE UNCHANGED storeVars
    BY <1>2 DEF storeVars
  <1> QED BY <1>1, <1>2

\* The log gains at most one change in a step.
LEMMA LogGrows ==
    ASSUME StoreTypeOK, [StoreNext]_storeVars, changes' # changes
    PROVE  /\ \A n \in DOMAIN changes : n \in DOMAIN changes' /\ changes'[n] = changes[n]
           /\ DOMAIN changes' = DOMAIN changes \cup {Len(changes')}
  <1>1. Effect
    BY StepHasEffect DEF storeVars
  <1>2. ASSUME NEW k \in Keys, NEW id \in Nat, NEW c \in Contents(StoredRules), Logged(k, id, c)
        PROVE  /\ \A n \in DOMAIN changes : n \in DOMAIN changes' /\ changes'[n] = changes[n]
               /\ DOMAIN changes' = DOMAIN changes \cup {Len(changes')}
    <2>1. Len(changes') = Len(changes) + 1
      BY <1>2, LoggedFacts
    <2>2. LogGains(k, id, c)
      BY <1>2, LoggedGains
    <2> QED BY <2>1, <2>2 DEF LogGains
  <1>3. ASSUME NEW k \in Keys, NEW c \in Contents(StoredRules), Adds(k, c)
        PROVE  \E id \in Nat : Logged(k, id, c)
    BY <1>3, RowType DEF Adds
  <1>4. ASSUME NEW k \in Keys, NEW c \in Contents(StoredRules), Touches(k, c)
        PROVE  \E id \in Nat : Logged(k, id, c)
    BY <1>4, CallTypes DEF Touches
  <1>5. ASSUME NEW k \in Keys, LeavesOut(k)
        PROVE  \E id \in Nat, c \in Contents(StoredRules) : Logged(k, id, c)
    <2>1. Call[k].id \in Nat /\ Call[k].id \in DOMAIN events
      BY <1>5, CallTypes DEF LeavesOut
    <2>2. events[Call[k].id].content \in Contents(StoredRules)
      BY <2>1, RowType DEF Event, StoredContents
    <2> QED BY <1>5, <2>1, <2>2 DEF LeavesOut
  <1> QED BY <1>1, <1>2, <1>3, <1>4, <1>5 DEF Effect, Rewrites, Withdraws, OnlyAnswers

\* Whoever logs a change leaves the row that answers for it.
LEMMA AppliedLeavesStep ==
    ASSUME IInv, StoreInv, AppliedLeaves, NEW x \in Executors, Step(x)
    PROVE  AppliedLeaves'
  <1>1. [StoreNext]_storeVars
    BY StepGood DEF Good
  <1>2. \A k \in Keys : /\ receipts[k] # 0 => receipts'[k] # 0
                        /\ sources[k] # 0 => sources'[k] # 0
    BY <1>1, RowsStay
  <1>3. \A n \in DOMAIN changes : changes[n].by \in Keys
    BY RowType DEF IInv, Change
  <1>4. CASE changes' = changes
    BY <1>2, <1>3, <1>4 DEF AppliedLeaves
  <1>5. CASE changes' # changes
    <2> DEFINE k == changes'[Len(changes')].by
    <2>1. /\ \A n \in DOMAIN changes : n \in DOMAIN changes' /\ changes'[n] = changes[n]
          /\ DOMAIN changes' = DOMAIN changes \cup {Len(changes')}
      BY <1>1, <1>5, LogGrows DEF IInv
    <2>2. k = Key(x) /\ (KeepsResult(k) => receipts'[k] # 0)
          /\ (Call[k].op = "create" /\ Hermes(k) =>
                sources'[k] # 0 /\ Valid(AtMidnight(Normalized(Input[k]))))
      <3>1. Len(events) + 1 # 0 /\ \A i \in DOMAIN events : i # 0
        BY RowType, EventIds DEF IInv
      <3>2. DOMAIN receipts = Keys /\ DOMAIN sources = Keys
        BY DEF IInv, StoreTypeOK
      <3>3. CASE Apply(x)
        <4>1. PICK out \in Outcomes :
                 ApplyAll(Key(x), Proposal(x), Before(x), out)
          BY <3>3 DEF Apply
        <4>2. /\ Key(x) \in Keys /\ task[x] # Idle /\ Key(x) = Items[task[x]][item[x]]
              /\ Fits(task[x], item[x], "apply", seen[x])
          BY <3>3, AtWork DEF IInv, Apply
        <4>3. /\ Call[Key(x)].op = "create" \/ Matches(Call[Key(x)].id, Before(x))
              /\ Written(Key(x), Proposed(Key(x), Proposal(x), Before(x)))
              /\ k = Key(x)
          BY <1>5, <4>1, <4>2, ApplyLogs DEF IInv
        <4>4. Hermes(Key(x)) => Call[Key(x)].op # "create"
          BY <4>2 DEF Fits, Changing
        <4>5. Call[Key(x)].op # "create" => Call[Key(x)].id \in DOMAIN events
          BY <4>3 DEF Matches, ActiveRows, Rows
        <4>6. receipts'[Key(x)] # 0
          BY <3>1, <3>2, <4>2, <4>3, <4>5 DEF Written
        <4> QED BY <4>3, <4>4, <4>6
      <3>4. CASE CreateExternal(x)
        <4>1. PICK out \in Outcomes : Create(Key(x), Input[Key(x)], out)
          BY <3>4 DEF CreateExternal
        <4>2. Key(x) \in Keys
          BY <3>4, AtWork DEF IInv, CreateExternal
        <4>3. /\ Call[Key(x)].op = "create" /\ Hermes(Key(x)) /\ k = Key(x)
              /\ Valid(AtMidnight(Normalized(Input[Key(x)])))
              /\ sources' = [sources EXCEPT ![Key(x)] = Len(events) + 1]
          BY <1>5, <4>1, <4>2, CreateLogs DEF IInv
        <4> QED BY <3>1, <3>2, <4>2, <4>3 DEF KeepsResult, Changing
      <3>5. CASE Exclude(x)
        <4>1. PICK out \in Outcomes : ExcludeOccurrence(Key(x), etag[Key(x)], out)
          BY <3>5 DEF Exclude
        <4>2. Key(x) \in Keys
          BY <3>5, AtWork DEF IInv, Exclude
        <4>3. Call[Key(x)].op = "exclude" /\ k = Key(x)
          BY <1>5, <4>1, <4>2, ExcludeLogs DEF IInv
        <4> QED BY <4>3 DEF KeepsResult, Changing
      <3>6. CASE Lookup(x) \/ Read(x) \/ Prepare(x) \/ Check(x) \/ Fails(x)
        BY <1>5, <3>6 DEF Lookup, Read, Prepare, Check, Fails, storeVars
      <3> QED BY <3>3, <3>4, <3>5, <3>6 DEF Step
    <2>3. ASSUME NEW n \in DOMAIN changes
          PROVE  LET l == changes'[n].by IN
                 /\ KeepsResult(l) => receipts'[l] # 0
                 /\ Call[l].op = "create" /\ Hermes(l) =>
                       sources'[l] # 0 /\ Valid(AtMidnight(Normalized(Input[l])))
      BY <1>2, <1>3, <2>1 DEF AppliedLeaves
    <2> QED BY <2>1, <2>2, <2>3 DEF AppliedLeaves, KeepsResult, Changing, Hermes, Valid, Normalized
  <1> QED BY <1>4, <1>5

\* An execution writes no stored result but that of its item.
LEMMA OwnReceipt ==
    ASSUME IInv, NEW x \in Executors, Step(x), NEW k \in Keys, task[x] = Idle \/ k # Key(x)
    PROVE  receipts'[k] = receipts[k]
  <1>1. DOMAIN receipts = Keys
    BY DEF IInv, StoreTypeOK
  <1>2. CASE UNCHANGED receipts
    BY <1>2
  <1>3. CASE Apply(x)
    <2>1. task[x] # Idle /\ k # Key(x)
      BY <1>3, AtWork DEF IInv, Apply
    <2>2. \/ UNCHANGED receipts
          \/ \E i : receipts' = [receipts EXCEPT ![Key(x)] = i]
      BY <1>3 DEF Apply, ApplyAll, ApplyNew, Written, storeVars
    <2> QED BY <1>1, <2>1, <2>2
  <1>4. CASE CreateExternal(x) \/ Exclude(x)
    <2>1. UNCHANGED receipts
      BY <1>4 DEF CreateExternal, Create, Exclude, ExcludeOccurrence, storeVars
    <2> QED BY <1>2, <2>1
  <1>5. CASE Lookup(x) \/ Read(x) \/ Prepare(x) \/ Check(x) \/ Fails(x)
    BY <1>5 DEF Lookup, Read, Prepare, Check, Fails, storeVars
  <1> QED BY <1>3, <1>4, <1>5 DEF Step

\* Without exclusions, a request enters no item at a read or at its application.
LEMMA EntryFresh ==
    ASSUME NoExclusions, NEW r \in Requests, NEW i \in DOMAIN Items[r]
    PROVE  Entry(r, i) \notin {"read", "apply"}
  <1>1. Call[Items[r][i]].op \in Operations \ {"exclude"}
    BY ItemTypes, CallTypes DEF NoExclusions
  <1> QED BY <1>1 DEF Entry, Operations

\* An execution gets past the lookup only without a stored result.
LEMMA OwnFresh ==
    ASSUME IInv, NoExclusions, Fresh, NEW x \in Executors, Step(x)
    PROVE  FreshAt(task[x], item[x], stage[x])'
  <1>1. task[x] # Idle
    BY AtWork DEF IInv, Step, Lookup, Read, Prepare, Check, Apply, CreateExternal, Exclude, Fails
  <1>2. /\ task[x] \in Requests /\ item[x] \in DOMAIN Items[task[x]]
        /\ Key(x) = Items[task[x]][item[x]] /\ Key(x) \in Keys
    BY <1>1, AtWork DEF IInv
  <1>3. /\ DOMAIN task = Executors /\ DOMAIN item = Executors /\ DOMAIN stage = Executors
    BY DEF IInv, Executions
  <1>4. ASSUME Stop(x) PROVE stage'[x] = "idle"
    BY <1>3, <1>4 DEF Stop
  <1>5. ASSUME Advance(x) PROVE stage'[x] \notin {"read", "apply"}
    <2>1. CASE item[x] < Len(Items[task[x]])
      <3>1. item[x] + 1 \in DOMAIN Items[task[x]]
        BY <1>2, <2>1, ItemTypes
      <3>2. stage'[x] = Entry(task[x], item[x] + 1)
        BY <1>3, <1>5, <2>1 DEF Advance
      <3> QED BY <1>2, <3>1, <3>2, EntryFresh
    <2>2. CASE ~(item[x] < Len(Items[task[x]]))
      BY <1>4, <1>5, <2>2 DEF Advance
    <2> QED BY <2>1, <2>2
  <1>6. ASSUME NEW next, Goto(x, next), UNCHANGED storeVars, receipts[Key(x)] = 0
        PROVE  FreshAt(task[x], item[x], stage[x])'
    BY <1>2, <1>6 DEF Goto, FreshAt, storeVars
  <1>7. ASSUME stage'[x] \notin {"read", "apply"} PROVE FreshAt(task[x], item[x], stage[x])'
    BY <1>7 DEF FreshAt
  <1>8. CASE Lookup(x)
    <2>1. CASE receipts[Key(x)] # 0
      BY <1>5, <1>7, <1>8, <2>1 DEF Lookup, Answer
    <2>2. CASE receipts[Key(x)] = 0
      BY <1>6, <1>8, <2>2 DEF Lookup
    <2> QED BY <2>1, <2>2
  <1>9. CASE Read(x)
    <2>1. receipts[Key(x)] = 0
      BY <1>2, <1>9 DEF Fresh, FreshAt, Read
    <2> QED BY <1>5, <1>6, <1>7, <1>9, <2>1 DEF Read, Answer
  <1>10. CASE Prepare(x)
    <2>1. stage'[x] \in {"idle", "prepare", "check"}
      BY <1>3, <1>4, <1>10 DEF Prepare
    <2> QED BY <1>7, <2>1
  <1>11. CASE Check(x)
    BY <1>5, <1>6, <1>7, <1>11 DEF Check, Answer
  <1>12. CASE Apply(x) \/ CreateExternal(x) \/ Exclude(x)
    BY <1>5, <1>7, <1>12 DEF Apply, CreateExternal, Exclude, Answer
  <1>13. CASE Fails(x)
    BY <1>4, <1>5, <1>7, <1>13 DEF Fails
  <1> QED BY <1>8, <1>9, <1>10, <1>11, <1>12, <1>13 DEF Step

LEMMA FreshStep ==
    ASSUME IInv, NoExclusions, OneAtATime, Fresh, NEW x \in Executors, Step(x)
    PROVE  Fresh'
  <1> SUFFICES ASSUME NEW y \in Executors, y # x
               PROVE  FreshAt(task[y], item[y], stage[y])'
    BY OwnFresh DEF Fresh
  <1>1. task'[y] = task[y] /\ item'[y] = item[y] /\ stage'[y] = stage[y]
    <2>1. \/ Stop(x) \/ Advance(x) \/ \E next : Goto(x, next)
          \/ /\ UNCHANGED task
             /\ item' = [item EXCEPT ![x] = @ + 1] \/ item' = [item EXCEPT ![x] = 1]
             /\ UNCHANGED stage \/ stage' = [stage EXCEPT ![x] = "check"]
      BY DEF Step, Lookup, Read, Prepare, Check, Apply, CreateExternal, Exclude, Fails, Answer
    <2> QED BY <2>1 DEF IInv, Executions, Stop, Advance, Goto
  <1>2. CASE stage[y] \notin {"read", "apply"}
    BY <1>1, <1>2 DEF FreshAt
  <1>3. CASE stage[y] \in {"read", "apply"}
    <2>1. /\ task[y] # Idle /\ Key(y) \in Keys /\ Key(y) = Items[task[y]][item[y]]
          /\ task[y] \in Requests /\ item[y] \in DOMAIN Items[task[y]]
      BY <1>3, AtWork DEF IInv
    <2>2. task[x] = Idle \/ Key(y) # Key(x)
      <3> SUFFICES ASSUME task[x] # Idle, Key(y) = Key(x) PROVE FALSE
        OBVIOUS
      <3>1. /\ task[x] \in Requests /\ item[x] \in DOMAIN Items[task[x]]
            /\ Key(x) = Items[task[x]][item[x]]
        BY AtWork DEF IInv
      <3>2. task[x] = task[y]
        BY <2>1, <3>1, OneItem
      <3> QED BY <2>1, <3>2 DEF OneAtATime
    <2>3. receipts'[Key(y)] = receipts[Key(y)]
      BY <2>1, <2>2, OwnReceipt
    <2>4. receipts[Key(y)] = 0
      BY <1>3, <2>1 DEF Fresh, FreshAt
    <2> QED BY <1>1, <2>1, <2>3, <2>4 DEF FreshAt
  <1> QED BY <1>2, <1>3

RefusedNot ==
    \A k \in Keys :
        (\E n \in DOMAIN changes : changes[n].by = k) => NewAnswers(k) \cap Refused = {}

\* A mutation whose change is in the log finds its row at every statement.
LEMMA StepRefusesNot ==
    ASSUME IInv, NoExclusions, AppliedLeaves, Fresh, NEW x \in Executors, Step(x)
    PROVE  RefusedNot
  <1> SUFFICES ASSUME NEW k \in Keys, NEW n \in DOMAIN changes, changes[n].by = k,
                      NEW a \in NewAnswers(k), a \in Refused
               PROVE  FALSE
    BY DEF RefusedNot
  <1>1. ASSUME NEW out, NEW version, Told(x, out, version)
        PROVE  k = Key(x) /\ out = a
    BY <1>1, OneNewAnswer DEF IInv
  <1>2. ~UNCHANGED answers
    BY NoNewAnswers
  <1>3. /\ KeepsResult(k) => receipts[k] # 0
        /\ Call[k].op = "create" /\ Hermes(k) => sources[k] # 0 /\ Valid(AtMidnight(Normalized(Input[k])))
    BY DEF AppliedLeaves
  <1>4. KeepsResult(k) \/ (Call[k].op = "create" /\ Hermes(k))
    <2>1. Call[k].op \in Operations \ {"exclude"}
      BY CallTypes DEF NoExclusions
    <2> QED BY <2>1 DEF KeepsResult, Changing, Operations
  <1>5. a \notin {"replayed", "known", "duplicate", "applied"}
    BY DEF Refused
  <1>6. CASE Read(x)
    <2>1. PICK out \in Refusal(Key(x)) : Told(x, out, NoVersion)
      BY <1>2, <1>6 DEF Read, Answer
    <2>2. k = Key(x)
      BY <1>1, <2>1
    <2>3. Fits(task[x], item[x], "read", seen[x]) /\ task[x] # Idle
          /\ k = Items[task[x]][item[x]]
      BY <1>6, <2>2, AtWork DEF IInv, Read
    <2>4. Call[k].op # "create"
      BY <2>3 DEF Fits
    <2>5. receipts[k] = 0
      BY <1>6, <2>3 DEF Fresh, FreshAt, Read
    <2> QED BY <1>3, <1>4, <2>4, <2>5
  <1>7. CASE Apply(x)
    <2>1. PICK out, version : Told(x, out, version)
      BY <1>7 DEF Apply
    <2>2. k = Key(x)
      BY <1>1, <2>1
    <2>3. Fits(task[x], item[x], "apply", seen[x]) /\ task[x] # Idle
          /\ k = Items[task[x]][item[x]]
      BY <1>7, <2>2, AtWork DEF IInv, Apply
    <2>4. Hermes(k) => Call[k].op # "create"
      BY <2>3 DEF Fits, Changing
    <2>5. receipts[k] = 0
      BY <1>7, <2>3 DEF Fresh, FreshAt, Apply
    <2> QED BY <1>3, <1>4, <2>4, <2>5
  <1>8. CASE Exclude(x)
    <2>1. Call[Key(x)].op = "exclude" /\ Key(x) \in Keys
      BY <1>8, AtWork DEF IInv, Exclude, ExcludeOccurrence
    <2> QED BY <2>1 DEF NoExclusions
  <1>9. CASE CreateExternal(x)
    <2>1. PICK out \in Outcomes : Create(Key(x), Input[Key(x)], out) /\ Told(x, out, NoVersion)
      BY <1>9 DEF CreateExternal, Answer
    <2>2. k = Key(x) /\ out = a
      BY <1>1, <2>1
    <2>3. sources[k] # 0 /\ Valid(AtMidnight(Normalized(Input[k])))
      BY <1>3, <2>1, <2>2 DEF Create, Hermes
    <2>4. out = "known"
      BY <2>1, <2>2, <2>3 DEF Create
    <2> QED BY <1>5, <2>2, <2>4
  <1>10. CASE Prepare(x)
    <2>1. Told(x, "inactive", NoVersion)
      BY <1>2, <1>10 DEF Prepare
    <2>2. k = Key(x)
      BY <1>1, <2>1
    <2>3. Call[k].op = "update" /\ receipts[k] = 0
      BY <1>2, <1>10, <2>2 DEF Prepare
    <2> QED BY <1>3, <2>3 DEF KeepsResult, Changing
  <1>11. CASE Check(x)
    <2>1. CASE receipts[Key(x)] # 0
      BY <1>1, <1>5, <1>11, <2>1 DEF Check, Answer
    <2>2. CASE receipts[Key(x)] = 0
      <3>1. PICK out : Told(x, out, NoVersion)
        BY <1>2, <1>11, <2>2 DEF Check, Answer
      <3>2. k = Key(x)
        BY <1>1, <3>1
      <3>3. Fits(task[x], item[x], "check", seen[x]) /\ task[x] # Idle
            /\ Call[k].origin = Origin(task[x])
        BY <1>11, <3>2, AtWork DEF IInv, Check
      <3>4. ~Hermes(k)
        BY <3>3 DEF Fits, Imports, Hermes
      <3> QED BY <1>3, <1>4, <2>2, <3>2, <3>4
    <2> QED BY <2>1, <2>2
  <1>12. CASE Lookup(x)
    <2>1. Told(x, "replayed", NoVersion)
      BY <1>2, <1>12 DEF Lookup, Answer
    <2> QED BY <1>1, <1>5, <2>1
  <1>13. CASE Fails(x)
    <2>1. Told(x, "blamed", NoVersion) /\ BlamesClient(x)
      BY <1>2, <1>13 DEF Fails
    <2>2. k = Key(x) /\ stage[x] \in {"read", "apply"} /\ task[x] # Idle
      BY <1>1, <1>13, <2>1 DEF BlamesClient, Fails
    <2>3. Fits(task[x], item[x], stage[x], seen[x]) /\ k = Items[task[x]][item[x]]
      BY <2>2, AtWork DEF IInv
    <2>4. Call[k].op # "create"
      BY <2>1, <2>2, <2>3 DEF Fits, BlamesClient
    <2>5. receipts[k] = 0
      BY <2>2, <2>3 DEF Fresh, FreshAt
    <2> QED BY <1>3, <1>4, <2>4, <2>5
  <1> QED BY <1>6, <1>7, <1>8, <1>9, <1>10, <1>11, <1>12, <1>13 DEF Step

\* A mutation that was applied is not refused when it is asked for again, from
\* wherever its answer was lost, as long as no request of Hermes is executed
\* twice at the same time and nothing is an exclusion: the two cases in which
\* it can be.
THEOREM RetriesAreNotRefused == NoExclusions => (Spec /\ []OneAtATime => RetryNotRefused)
  <1> SUFFICES ASSUME NoExclusions PROVE Spec /\ []OneAtATime => RetryNotRefused
    OBVIOUS
  <1> DEFINE Inv == AppliedLeaves /\ Fresh
  <1>1. Init => Inv
    BY DEF Init, StoreInit, AppliedLeaves, Fresh, FreshAt
  <1>2. IInv /\ StoreInv /\ OneAtATime /\ Inv /\ [Next]_requestVars => Inv'
    <2> SUFFICES ASSUME IInv, StoreInv, OneAtATime, Inv, [Next]_requestVars PROVE Inv'
      OBVIOUS
    <2>1. ASSUME NEW x \in Executors, Step(x) PROVE Inv'
      BY <2>1, AppliedLeavesStep, FreshStep
    <2>2. ASSUME UNCHANGED storeVars PROVE AppliedLeaves'
      BY <2>2 DEF storeVars, AppliedLeaves
    <2>3. ASSUME NEW x \in Executors, NEW r \in Requests, Send(x, r) PROVE Fresh'
      <3> SUFFICES ASSUME NEW y \in Executors PROVE FreshAt(task[y], item[y], stage[y])'
        BY DEF Fresh
      <3>1. /\ UNCHANGED storeVars /\ UNCHANGED item /\ task' = [task EXCEPT ![x] = r]
            /\ stage' = [stage EXCEPT ![x] = IF Imports(r) THEN "prepare" ELSE Entry(r, 1)]
        BY <2>3 DEF Send
      <3>2. DOMAIN task = Executors /\ DOMAIN stage = Executors
        BY DEF IInv, Executions
      <3>3. CASE y = x
        <4>1. Entry(r, 1) \notin {"read", "apply"}
          BY EntryFresh, ItemTypes
        <4>2. stage'[y] \notin {"read", "apply"}
          BY <3>1, <3>2, <3>3, <4>1
        <4> QED BY <4>2 DEF FreshAt
      <3>4. CASE y # x
        BY <3>1, <3>2, <3>4 DEF Fresh, FreshAt, storeVars
      <3> QED BY <3>3, <3>4
    <2>4. CASE Crash
      BY <2>2, <2>4 DEF Crash, Fresh, FreshAt
    <2>5. CASE (\E r \in Requests, k \in Keys : ClientReads(r, k)) \/ UNCHANGED requestVars
      BY <2>2, <2>5 DEF ClientReads, requestVars, executorVars, Fresh, FreshAt, storeVars
    <2>6. CASE \E x \in Executors, r \in Requests : Send(x, r)
      BY <2>2, <2>3, <2>6 DEF Send
    <2> QED BY <2>1, <2>4, <2>5, <2>6 DEF Next
  <1>3. ASSUME IInv, Inv, Next PROVE RefusedNot
    <2>1. ASSUME UNCHANGED answers PROVE RefusedNot
      BY <2>1, NoNewAnswers DEF RefusedNot
    <2> QED BY <1>3, <2>1, StepRefusesNot DEF Next, ClientReads, Send, Crash
  <1>4. IInv /\ Inv /\ [Next]_requestVars =>
          [\A k \in Keys :
             (\E n \in DOMAIN changes : changes[n].by = k)
                 => NewAnswers(k) \cap Refused = {}]_requestVars
    BY <1>3 DEF RefusedNot
  <1>5. Spec => []StoreInv
    BY RequestsImplementStore, StoreInvariant, PTL DEF ImplementsStore
  <1> HIDE DEF Inv
  <1> QED BY <1>1, <1>2, <1>4, <1>5, RequestsIInvHolds, PTL DEF Spec, RetryNotRefused

=============================================================================
