------------------------------ MODULE Schedule ------------------------------
(***************************************************************************)
(* The canonical schedule store (internal/schedule): the tables events,    *)
(* event_exclusions, event_sources, agent_mutations, change_log and the    *)
(* two announcement queues, and the transactions that write them.  SQLite  *)
(* has one connection, so a transaction is one step; what a caller read    *)
(* before it may be stale.                                                 *)
(*                                                                         *)
(* A key stands for one mutation a caller asks for: the invocation key of  *)
(* an agent's tool call (a hash of the message, the tool and its           *)
(* arguments) or an Idempotency-Key of Hermes.  Call[k] is what is asked   *)
(* for under it.  Every caller passes ApplyAll one proposal at a time.     *)
(*                                                                         *)
(* The content of an event keeps what the code tells apart: the title and  *)
(* the place are in its identity (and so are kind and start, not modelled  *)
(* apart), note stands for the fields that are not.  A recurrence rule is  *)
(* "open" when it has no limit; the store gives it one ("generated") or    *)
(* takes the limit in the rule for the user's ("until" becomes             *)
(* "explicit").  Two more rewritings change fields without changing what   *)
(* the event is: an all-day event is moved to midnight ("hour"), and tags  *)
(* are written in one spelling ("tags").  raw holds those that a content   *)
(* still needs; a row needs none.  Conflicts with other events only        *)
(* produce warnings.                                                       *)
(***************************************************************************)
EXTENDS Integers, Sequences, FiniteSets

CONSTANTS
    Keys,       \* invocation keys and Idempotency-Keys
    Call,       \* the mutation asked for under each key
    Titles,
    BadTitles,  \* the titles that do not pass Validate
    Places,
    Notes,
    Tags,
    Raw,        \* the rewritings that a content may still need when it comes
    Dates,      \* dates a client may ask to exclude
    OffDates,   \* the dates on which no series has an occurrence
    NoVersion   \* no snapshot

Rules == {"single", "open", "until", "generated", "explicit"}
StoredRules == {"single", "generated", "explicit"}
Contents(R) == [title : Titles, place : Places, rule : R, note : Notes,
                tags : SUBSET Tags, raw : SUBSET Raw]
Statuses == {"active", "cancelled"}
Operations == {"create", "update", "cancel", "exclude"}
Outcomes == {"applied", "unchanged", "replayed", "known", "duplicate",
             "invalid", "stale", "taken", "missing", "inactive"}

ASSUME ScheduleAssumption ==
    /\ BadTitles \subseteq Titles
    /\ OffDates \subseteq Dates
    /\ Raw \subseteq {"hour", "tags"}
    /\ \A k \in Keys : /\ Call[k].origin \in {"agent", "hermes"}
                       /\ Call[k].op \in Operations
                       /\ Call[k].id \in Nat
                       /\ Call[k].date \in Dates

VARIABLES
    events,      \* the rows of events, by id, with their tags and exclusions
    sources,     \* event_sources: the event of each key, 0 if there is no row
    receipts,    \* agent_mutations: the event in the stored result, or 0
    changes,     \* change_log, by id; "by" names the key, for the properties
    groupQueue,  \* group_announcement_changes
    adminQueue   \* admin_schedule_notifications

storeVars == <<events, sources, receipts, changes, groupQueue, adminQueue>>

StoreInit ==
    /\ events = <<>>
    /\ sources = [k \in Keys |-> 0]
    /\ receipts = [k \in Keys |-> 0]
    /\ changes = <<>>
    /\ groupQueue = {}
    /\ adminQueue = {}

-----------------------------------------------------------------------------
(* What the code computes from an event.                                   *)

\* The hash that is stored as dedupe_key.  A generated limit is not part of
\* it, an explicit one is.
Canonical(c) == <<c.title, c.place, c.rule>>

\* normalizeRecurrence.
Normalized(c) ==
    [c EXCEPT !.rule = CASE @ = "open"  -> "generated"
                         [] @ = "until" -> "explicit"
                         [] OTHER       -> @]

\* NormalizeAllDay, and norm of the tags: what is left to rewrite after each.
AtMidnight(c) == [c EXCEPT !.raw = @ \ {"hour"}]
InOneSpelling(c) == [c EXCEPT !.raw = @ \ {"tags"}]

Valid(c) == c.title \notin BadTitles

\* The JSON of an event does not tell a generated limit from one of the user's.
AsJSON(c) == [c EXCEPT !.rule = IF @ = "generated" THEN "explicit" ELSE @]

\* The event of a row, and what Snapshot and Version keep of it.
EventOf(i, row) == [id |-> i, content |-> row.content, status |-> row.status,
                    excluded |-> row.excluded]
Get(i) == EventOf(i, events[i])
Snapshot(e) == [e EXCEPT !.content = AsJSON(@)]

\* The Version of the event that eventTx reads: without its tags.
VersionInTx(i) == Snapshot([Get(i) EXCEPT !.content.tags = {}])

Rows == {i \in DOMAIN events : ~events[i].deleted}
ActiveRows == {i \in Rows : events[i].status = "active"}

\* The rows, cancelled ones included, that hold the identity of c.
Holders(c) == {i \in Rows : events[i].key = Canonical(c)}

-----------------------------------------------------------------------------
(* The statements of the transactions.                                     *)

\* Faulty variant of Logged: a change of Hermes also goes to the group.
LoggedToAll(k, id, c) ==
    /\ changes' = Append(changes, [op |-> Call[k].op, id |-> id,
                                   content |-> AsJSON(c), date |-> Call[k].date,
                                   by |-> k])
    /\ groupQueue' = groupQueue \cup {Len(changes) + 1}
    /\ adminQueue' = IF Call[k].origin = "hermes"
                     THEN adminQueue \cup {Len(changes) + 1} ELSE adminQueue

\* The change_log row and its place in a queue.  Its payload is the proposal
\* as it is when it is marshalled, which the callers of Logged say.  The
\* agent's tools announce, Hermes' calls do not.
Logged(k, id, c) ==
    /\ changes' = Append(changes, [op |-> Call[k].op, id |-> id,
                                   content |-> AsJSON(c), date |-> Call[k].date,
                                   by |-> k])
    /\ groupQueue' = IF Call[k].origin = "agent"
                     THEN groupQueue \cup {Len(changes) + 1} ELSE groupQueue
    /\ adminQueue' = IF Call[k].origin = "hermes"
                     THEN adminQueue \cup {Len(changes) + 1} ELSE adminQueue

\* The columns and tags that are written for c.
Columns(c) == InOneSpelling(AtMidnight(c))

\* INSERT INTO events; the unique index on dedupe_key refuses a held identity.
Inserted(c) ==
    /\ Holders(c) = {}
    /\ events' = Append(events, [content |-> Columns(c), key |-> Canonical(c),
                                 status |-> "active", deleted |-> FALSE,
                                 excluded |-> {}])

\* Faulty variant of Rewritten: the duplicate stays active.
RewrittenBeside(id, c) ==
    events' = [i \in DOMAIN events |->
        IF i = id THEN [events[i] EXCEPT !.content = Columns(c), !.key = Canonical(c)]
        ELSE events[i]]

\* The update: another row with the identity of c is withdrawn, then the row
\* is written with its tags and its new key.
Rewritten(id, c) ==
    events' = [i \in DOMAIN events |->
        IF i = id THEN [events[i] EXCEPT !.content = Columns(c), !.key = Canonical(c)]
        ELSE IF i \in Holders(c)
        THEN [events[i] EXCEPT !.status = "cancelled", !.deleted = TRUE]
        ELSE events[i]]

\* Faulty variant of Cancelled: the row is withdrawn like a merged duplicate.
CancelledAndDeleted(id) ==
    events' = [events EXCEPT ![id] = [@ EXCEPT !.status = "cancelled", !.deleted = TRUE]]

\* The soft cancellation: the row keeps its key.
Cancelled(id) == events' = [events EXCEPT ![id].status = "cancelled"]

\* Faulty variants of Matches: only the event's existence is checked; its tags
\* are not read.
MatchesAnyVersion(id, before) == id \in ActiveRows
MatchesWithoutTags(id, before) == id \in ActiveRows /\ VersionInTx(id) = before

\* The target is active and still as the caller saw it.
Matches(id, before) == id \in ActiveRows /\ Snapshot(Get(id)) = before

-----------------------------------------------------------------------------
(* ApplyAll with the one proposal (Call[k].op, c, before).                 *)

\* The writes of a proposal that passed its checks.  What is logged of c was
\* marshalled at the beginning of applyTx, before c was moved to midnight.
Written(k, c) ==
    LET id == Call[k].id IN
    \/ /\ Call[k].op = "create"
       /\ Inserted(c)
       /\ Logged(k, Len(events) + 1, c)
       /\ sources' = [sources EXCEPT ![k] = Len(events) + 1]
       /\ receipts' = [receipts EXCEPT ![k] = Len(events) + 1]
    \/ /\ \/ Call[k].op = "update" /\ Rewritten(id, c)
          \/ Call[k].op = "cancel" /\ Cancelled(id)
       /\ Logged(k, id, c)
       /\ sources' = [sources EXCEPT ![k] = id]
       /\ receipts' = [receipts EXCEPT ![k] = id]

\* applyTx without the event_sources row of k.
ApplyNew(k, c, before, out) ==
    LET op == Call[k].op
        found == op = "create" \/ Matches(Call[k].id, before)
        valid == op = "cancel" \/ Valid(c)
    IN
    \/ out = "applied" /\ found /\ valid /\ Written(k, c)
    \/ /\ \/ out = "stale" /\ ~found
          \/ out = "invalid" /\ found /\ ~valid
          \/ out = "taken" /\ op = "create" /\ valid /\ Holders(c) # {}
       /\ UNCHANGED storeVars

\* The event of the proposal: a cancellation carries the one that was read.
Proposed(k, d, before) ==
    IF Call[k].op = "cancel" THEN before.content ELSE Normalized(d)

\* Faulty variant of ApplyAll: neither receipt is looked at.
ApplyAgain(k, d, before, out) ==
    /\ Call[k].op # "exclude"
    /\ ApplyNew(k, Proposed(k, d, before), before, out)

\* A stored result, or an event_sources row, answers for a mutation that was
\* applied before; the latter is then stored as the result.
ApplyAll(k, d, before, out) ==
    /\ Call[k].op # "exclude"
    /\ \/ out = "replayed" /\ receipts[k] # 0 /\ UNCHANGED storeVars
       \/ /\ out = "known" /\ receipts[k] = 0 /\ sources[k] # 0
          /\ receipts' = [receipts EXCEPT ![k] = sources[k]]
          /\ UNCHANGED <<events, sources, changes, groupQueue, adminQueue>>
       \/ /\ receipts[k] = 0 /\ sources[k] = 0
          /\ ApplyNew(k, Proposed(k, d, before), before, out)

\* Faulty variant of Create: the event_sources row is not looked at.
CreateAgain(k, d, out) ==
    LET c == AtMidnight(Normalized(d)) IN
    /\ Call[k].op = "create" /\ Call[k].origin = "hermes"
    /\ out = "applied" /\ Valid(c)
    /\ Inserted(c)
    /\ Logged(k, Len(events) + 1, c)
    /\ sources' = [sources EXCEPT ![k] = Len(events) + 1]
    /\ UNCHANGED receipts

\* Service.Create, which only Hermes calls: it validates first, never writes
\* agent_mutations, and takes any row with the identity for a duplicate.  It
\* logs the event as it is at midnight, with its tags as they came.
Create(k, d, out) ==
    LET c == AtMidnight(Normalized(d)) IN
    /\ Call[k].op = "create" /\ Call[k].origin = "hermes"
    /\ \/ out = "invalid" /\ ~Valid(c) /\ UNCHANGED storeVars
       \/ out = "known" /\ Valid(c) /\ sources[k] # 0 /\ UNCHANGED storeVars
       \/ /\ out = "duplicate" /\ Valid(c) /\ sources[k] = 0
          /\ \E i \in Holders(c) : sources' = [sources EXCEPT ![k] = i]
          /\ UNCHANGED <<events, receipts, changes, groupQueue, adminQueue>>
       \/ /\ out = "applied" /\ Valid(c) /\ sources[k] = 0
          /\ Inserted(c)
          /\ Logged(k, Len(events) + 1, c)
          /\ sources' = [sources EXCEPT ![k] = Len(events) + 1]
          /\ UNCHANGED receipts

-----------------------------------------------------------------------------
(* ExcludeOccurrenceVersioned.  Only Hermes' calls leave an event_sources   *)
(* row; version is NoVersion for the agent's tool.                         *)

\* The exclusion row, with its change if it is new.
Excluded(k, id) ==
    IF Call[k].date \in events[id].excluded
    THEN UNCHANGED <<events, changes, groupQueue, adminQueue>>
    ELSE /\ events' = [events EXCEPT ![id].excluded = @ \cup {Call[k].date}]
         /\ Logged(k, id, events[id].content)

ExcludeOccurrence(k, version, out) ==
    LET id == Call[k].id
        external == Call[k].origin = "hermes"
        there == id \in DOMAIN events
        series == there /\ events[id].status = "active"
                        /\ events[id].content.rule # "single"
        new == series /\ (external => sources[k] = 0)
        current == version = NoVersion \/ version = VersionInTx(id)
    IN
    /\ Call[k].op = "exclude"
    /\ \/ /\ out = "applied" /\ new /\ current /\ Call[k].date \notin OffDates
          /\ Excluded(k, id)
          /\ sources' = IF external THEN [sources EXCEPT ![k] = id] ELSE sources
          /\ UNCHANGED receipts
       \/ /\ \/ out = "missing" /\ ~there
             \/ out = "inactive" /\ there /\ ~series
             \/ out = "known" /\ series /\ external /\ sources[k] # 0
             \/ out = "stale" /\ new /\ ~current
             \/ out = "invalid" /\ new /\ current /\ Call[k].date \in OffDates
          /\ UNCHANGED storeVars

-----------------------------------------------------------------------------
(* The store under any caller.  A proposal whose "before" is not the        *)
(* target's present snapshot writes nothing, so the present one is enough.  *)

Seen(id) == IF id \in DOMAIN events THEN Snapshot(Get(id)) ELSE NoVersion

StoreNext ==
    \E k \in Keys, out \in Outcomes :
        \/ \E d \in Contents(Rules) : ApplyAll(k, d, Seen(Call[k].id), out)
        \/ \E d \in Contents(Rules) : Create(k, d, out)
        \/ \E version \in {NoVersion} \cup {VersionInTx(i) : i \in DOMAIN events} :
              ExcludeOccurrence(k, version, out)

StoreSpec == StoreInit /\ [][StoreNext]_storeVars

-----------------------------------------------------------------------------
(* Properties of the store.                                                *)

StoredContents == {c \in Contents(StoredRules) : c.raw = {}}
Event == [content : StoredContents, key : Titles \X Places \X StoredRules,
          status : Statuses, deleted : BOOLEAN, excluded : SUBSET Dates]
Change == [op : Operations, id : Nat, content : Contents(StoredRules), date : Dates,
           by : Keys]

\* Every table has its type, and its references are to rows that exist.
StoreTypeOK ==
    /\ events \in Seq(Event)
    /\ sources \in [Keys -> 0 .. Len(events)]
    /\ receipts \in [Keys -> 0 .. Len(events)]
    /\ changes \in Seq(Change)
    /\ \A n \in DOMAIN changes : changes[n].id \in DOMAIN events
    /\ groupQueue \subseteq DOMAIN changes
    /\ adminQueue \subseteq DOMAIN changes

\* No two active events are the same event: however creations, renames onto
\* an existing event and retries are mixed, the schedule shows it once.
OneEventPerIdentity ==
    \A i, j \in ActiveRows :
        Canonical(events[i].content) = Canonical(events[j].content) => i = j

\* A mutation is applied at most once, whatever is retried and whatever
\* happened to its event since.
AppliedOnce ==
    \A m, n \in DOMAIN changes : changes[m].by = changes[n].by => m = n

\* The result stored for a key is the event its source row names: the two
\* receipts of a mutation never answer differently.
ReceiptsAgree == \A k \in Keys : receipts[k] # 0 => sources[k] = receipts[k]

\* docs/architecture.md: what Hermes changes is announced to the
\* administrator and not broadcast to the group, and the other way round.
QueuesByOrigin ==
    \A n \in DOMAIN changes :
        /\ n \in adminQueue <=> Call[changes[n].by].origin = "hermes"
        /\ n \in groupQueue <=> Call[changes[n].by].origin = "agent"

\* The last change that created, rewrote or cancelled event i.
LastChange(i) ==
    LET about == {n \in DOMAIN changes : changes[n].id = i /\ changes[n].op # "exclude"}
    IN  CHOOSE n \in about : \A m \in about : m <= n

\* The change log explains the schedule as far as it is written for that.  An
\* event that is not withdrawn has the status of its last change, and is what
\* that change says once it is moved to midnight and its tags are in one
\* spelling, which applyTx does after it has marshalled the payload.  One that
\* is withdrawn has no change of its own for it: it lost its identity to the
\* event of a later update.
ChangesExplainEvents ==
    \A i \in DOMAIN events :
        LET last == changes[LastChange(i)] IN
        IF events[i].deleted
        THEN \E n \in DOMAIN changes :
                /\ n > LastChange(i)
                /\ changes[n].op = "update" /\ changes[n].id # i
                /\ Canonical(changes[n].content) = Canonical(AsJSON(events[i].content))
        ELSE /\ last.op = "cancel" <=> events[i].status = "cancelled"
             /\ last.op # "cancel" => Columns(last.content) = AsJSON(events[i].content)

\* The comment of applyTx (operations.go:476): the normalized proposal is
\* stored so that the change log describes the event as it is.
LoggedAsStored ==
    \A i \in ActiveRows : changes[LastChange(i)].content = AsJSON(events[i].content)

\* docs/architecture.md: Hermes may project the change feed into a calendar
\* that is a view of the schedule.  A client that keeps, for each event, its
\* last change therefore shows exactly the active events.
FeedShowsActiveEvents ==
    \A i \in DOMAIN events :
        changes[LastChange(i)].op # "cancel" <=> i \in ActiveRows

-----------------------------------------------------------------------------
(* What the store promises: Calendar, with the active events and the set of *)
(* mutations that took effect.                                             *)

AbstractCalendar == INSTANCE Calendar WITH
    live <- [i \in ActiveRows |->
                [identity |-> Canonical(events[i].content),
                 content |-> events[i].content, excluded |-> events[i].excluded]],
    effective <- {changes[n].by : n \in DOMAIN changes}

ImplementsCalendar == AbstractCalendar!Spec
=============================================================================
