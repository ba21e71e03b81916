# Verification of eleven_bot

TLA+ modules, TLC configurations and TLAPS proofs for the Telegram group
assistant in this repository. Paths below are relative to the repository root.

## 1. The system

One Go process (`cmd/app/main.go`) with one SQLite database (one open
connection, `internal/db/db.go`). It talks to Telegram by long polling, to a
chat-completions service, and serves a dashboard and an HTTP API to Hermes Hub.

| Component | State it keeps | Operations | Talks to |
|---|---|---|---|
| Update receipts (`internal/telegram/telegram.go`, `claimReceipt` ... `recoverPendingReceipts`) | `telegram_receipts`: status, claim token, lease | claim, renew, complete, release, startup recovery | Telegram (updates), conversation store, agent |
| Schedule store (`internal/schedule`) | `events`, tags, `event_exclusions`, `event_sources`, `agent_mutations`, `change_log`, both queues | `Create`, `Apply`, `ApplyAll`, `ApplyImport`, `ExcludeOccurrence(Versioned)`, reads | called by the agent's tools and by the Hermes API |
| Hermes API (`internal/api/api.go`) | none of its own | create, update, cancel, exclude, batch, change feed | schedule store |
| Announcements (`sync`, `watchAdminScheduleNotifications`) | `group_announcement_changes`, `admin_schedule_notifications`, a mutex | preview, send, delete after delivery | schedule store (writes the queues), Telegram |
| Conversation store (`internal/conversation`) | `messages` with raw and local parent | `Ingest`, `StoreBot`, `UpdateBotText`, `BuildReplyChain`, `Prune` | receipts' handler, sender, agent |
| Agent loop (`internal/agent`) | one run's messages and counters | rounds of model call and tool calls | chat transport, schedule store |
| Sender (`deliver`, `withThinking`) | thinking messages and their progress | post, edit, final replacement | Telegram, conversation store |
| Chat transport (`internal/ai`) | none | bounded retry, decoding | model service |
| Members and profiles (`internal/admin`, `refreshUserContext`, `dailyImageContext`) | `users`, `group_members`, `user_contexts`, `image_context_entries`, `profile_refresh_state` | upsert, leave, refresh, daily claim, image notes | receipts' handler, model service |
| Recurrence, categories, mentions, dashboard, roster, release watcher, configuration, migrations | small or none | | |

What is hard about it: handlers run concurrently and each works for up to
minutes between its claim and its completion; the process may die between any
two statements; Telegram delivers again what was not confirmed and may accept a
message whose answer is lost; Hermes retries HTTP calls; two sources (agent and
Hermes) write one schedule with optimistic concurrency; both outboxes are
emptied after a delivery that is not atomic with the database.

### What makes each component correct

* **Receipts**: one active owner per update; a stale worker cannot end a later
  claim; done only when answered, and done for ever; a claim settles; what was
  interrupted or released is retried, as what it was.
* **Schedule store**: one live event per identity; no lost update; a retried
  mutation is applied once and answers what it answered before; all or nothing;
  every change is in the change log; Hermes' changes stay out of the group queue.
* **Hermes API**: a mutation under If-Match applies to exactly the version the
  client saw; a retry under one Idempotency-Key is safe; batches item by item.
* **Announcements**: every queued change is announced before it is forgotten;
  nothing is deleted that was not delivered.
* **Conversation store**: local edges agree with raw ones, never dangle, however
  messages arrive and are pruned; chains are bounded and end.
* **Agent loop**: bounded rounds, one answer per call, no tool without the right
  to it, no call twice, the newest context that fits.
* **Sender**: one visible final answer, stored as it is shown.
* **Chat transport**: what the model said arrives as it was said or not at all;
  what may pass is asked again, what will not is reported as what it is.
* **Members**: nobody keeps the database's connection from the others; a day's
  work is claimed once a day; a profile ends up made of all messages of the group.

## 2. Modules

| Module | What it is | Models |
|---|---|---|
| `Receipts` | detailed specification | `telegram.go` 217-470: claims, leases, renewal, completion, recovery |
| `UpdateOwnership` | what `Receipts` promises | an update has at most one owner and is settled once |
| `MCReceipts` | instances for TLC | |
| `ReceiptsProofs` | theorems about `Receipts` | |
| `Schedule` | detailed specification of the store | `internal/schedule`: every transaction that writes it |
| `Calendar` | what `Schedule` promises | a set of live events, changed by one mutation at a time |
| `ScheduleRequests` | composes `Schedule` with its callers | handlers of `/api/v1` and the agent's mutation tools |
| `MCSchedule`, `MCScheduleRequests` | instances for TLC | |
| `ScheduleProofs` | theorems about `Schedule` and `ScheduleRequests` | |
| `Announcements`, `MCAnnouncements` | both outboxes | `sync`, `watchAdminScheduleNotifications` |
| `AnnouncementsProofs` | theorems about `Announcements` | |
| `Conversation`, `MCConversation` | message graph and agent context | `internal/conversation`, `runAgentReply` |
| `ConversationProofs` | theorems about `Conversation` | |
| `AgentLoop` | one run of the agent | `internal/agent/agent.go`, `Run` |
| `Delivery` | the messages of one update in the chat | `withThinking`, `updateThinking`, `deliver` |
| `AgentReply`, `MCAgentReply` | composes the two under the handler and the recovery | `handle`, `runAgentReply` |
| `AgentReplyProofs` | theorems about `AgentLoop`, `Delivery` and `AgentReply` | |
| `Completion`, `MCCompletion` | one exchange with the provider | `internal/ai`: `Chat`, `legacyChat`, `complete` and their decoders |
| `CompletionProofs` | theorems about `Completion` | |
| `Members`, `MCMembers` | who is active, profiles, the daily job | `internal/admin`, `refreshUserContext`, `dailyImageContext` |
| `MembersProofs` | theorems about `Members` | |
| `SetLemmas` | finite sets of numbers and sums over them, for the proofs | |

Operators named "Faulty variant of ..." are plausible mistakes in the code; no
specification uses them. Replacing the definition they vary by one of them must
break a property, which shows that the property depends on that definition.

### Receipts

A worker is an execution of `handle` or the startup recovery. Its program
counter follows the handler: delivered, claimed, message ingested, renewal
running, agent or command at work, completing or releasing. A receipt is a
status, a token and the ticks its lease has left. `Crash` stops every worker and
`Restart` starts the recovery; Telegram delivers again what it was not
confirmed. go-telegram runs handlers concurrently and shutting down does not
wait for them, so a crash may come between any two steps. `Faults` says what can
fail: statements, sends, the download or transcription of a voice message (`handle`
then returns before it claims anything), and an agent without a client.

A tick is 30 s: the lease is 120 s, renewal comes every 30 s. A recovery does not
renew, but the agent's run is cut at 75 s (`cmd/app/main.go:113`) and its
deliveries at 12 s each, so that it takes at most about 99 s. That is the timing
assumption `LeaseTiming`; the properties that need it say so, and
`receipts_stalled` shows what holds without it.

### Schedule

The database has one connection, so a transaction is one step: `Create`,
`Apply` with its three operations, `ExcludeOccurrence`. Every caller passes
`ApplyAll` one proposal. Each `Keys` element is an idempotency key with the call
it stands for; anyone may make the call at any time, again and again. Content is
a title, a place and a rule, which make the identity, and a note and tags, which
do not. `raw` holds the rewritings that a content still needs: an all-day event that
is not at midnight, tags that are not in the spelling of the table. A row needs none;
what is logged is what was marshalled, and `Columns` is what the row makes of it. The
callers rewrite at different places: an import moves a day to midnight before it
applies it (`Proposal`), `Create` before it logs it, `Apply` after. Rows carry status, version, exclusions and dedupe key; the receipts
(`agent_mutations`, `event_sources`), the change log and both queues are
variables of their own.

`ScheduleRequests` runs the callers' control around those transactions: lookup
of a stored result, read of the event, version check, transaction, answer, for
single requests and batches, with executions that overlap, die, and are asked
for again. `Get` reads an event by three queries outside a transaction. The
model reads it in one step: a torn version matches nothing in the transaction
that follows, which refuses it as it refuses a stale one. A statement that fails ends
the execution or the item (`Fails`). Where the code then answers 412, the answer is
"blamed" (`BlamesClient`): a cancellation answers so to any error, and a read that
left out a part of the event has another version than the client's.

### Announcements

A change is a number, in the order of its row, with the size of its line. A
`/sync` takes the mutex, reads the queue, delivers it in parts and deletes what it
read; a preview reads and delivers privately. The watcher sends up to
twenty changes in one private message and then deletes them. `Deliveries` says
what a delivery can do: reach Telegram or not, be reported or not, be repeated.

### Conversation

Telegram numbers messages; the table gives ids in the order of storing, one more
than the largest present, so that a pruned id can be used again. `Store` is
`insert` with both its branches, `Prune` the retention, `UpdateBotText` the edits
of the sender. The handler's reads are steps of their own (`Walk`, `ReadRecent`),
so everything else can happen between them; `Assemble` is the rest of
`runAgentReply` up to the agent. Orders (`Ascending`, and `InOrder` for the stable
sort by id with the cut before it) are given by rank: the k-th is the one up to
which there are k. A text is a member of a set with a size. A
message that is being answered is not old enough to be pruned (`Expired`);
retention is 48 hours.

### AgentReply: AgentLoop and Delivery

`AgentLoop` has one step for each thing `Run` does between two calls of others:
messages of the history are removed until the request fits (`Fit`), the model
replies, calls tools or fails, each call of a turn is refused, found among the
earlier ones or executed, and the deadline comes between any two of them. A call
is a tool and its arguments; sizes are numbers. What a tool does to the schedule
is one effect under the key of the run's invocation; the transactions behind it
are those of `ScheduleRequests`.

`Delivery` holds the bot's messages of the update and their rows. Each request is
done, refused, carried out and reported as an error, or, if it is an edit, carried
out after its timeout; writing the row may fail too. `AgentReply` runs the loop under
the handler's control: a placeholder, the progress that is shown before a call is
executed, the answer or the text for an error, the settling of the receipt, which is
here no more than done or not, a crash at any point and another execution by the
handler or by the recovery. A command that the bot knows is answered without a run;
one that the private chat does not know (`command = "unknown"`) is answered by the
agent, and the receipt is done whatever becomes of it (`needs`).

### Completion

The provider chooses a turn (text and calls) and sends it in any pieces: as one
message, as deltas with the calls interleaved, cut off at any place, with foreign
chunks between, ending well, for length, or not at all. The client takes the
chunks as they come, which gives the same as decoding them at the end, because
the decoder keeps nothing of an attempt but what it has decoded. A provider whose
ids are good (`OwnIds`) may leave out the index of a call's first piece, which is
then taken for index 0, the first call. A finish reason or a type that is empty in
the code is written "none". `TransientIsMasked`
and `ChatEnds` are about the loop around it, with its three attempts.

### Members

A statement needs the connection; a cursor keeps it. A refresh is queued, reads,
closes its cursor, waits for the model and saves; those in the background have a
deadline of two minutes, those of /context and of the daily job have none. A
profile is what it was made of: how many of the member's messages, or which photos.
The administrator's private messages are stored with the group's and read for his
profile, but start no refresh (`PrivateMessage`); `due` is the number of texts up to
the last for which one was started.
The daily job claims its row, takes the photos, then the texts, and sleeps until
its ticker. Time is counted in days, because what is under way takes minutes; a
claim at 24 hours may be granted or refused.

## 3. Runs

| Run | Question | Bounds |
|---|---|---|
| `receipts_timely` | one owner, done only if answered, implements `UpdateOwnership` | 1 update, 2 handlers and the recovery, lease of 4 ticks |
| `receipts_stalled` | what a worker that overran its lease can still not do | 2 updates on different routes, 1 handler and the recovery, lease of 1 tick, work of 2 |
| `receipts_live` | released receipts are retried, claims settle | 1 update, 2 handlers, failing deliveries |
| `schedule_store` | identities, at most once, change log, queues, implements `Calendar` | 7 keys: 2 creations, update onto the other, cancellation, 3 exclusions; days at midnight or not |
| `requests_contest` | no lost update, no comparison of versions is wrong | 4 requests of the agent and Hermes on one event with a tag, 2 concurrent executions |
| `requests_batches` | a retried batch is not refused what it did | 3 batches and an exclusion, with bad items and a merge, 1 execution at a time |
| `announcements` | nothing forgotten, nothing shown twice while nothing fails, order, progress | 2 `/sync`, watcher, 4 changes, 1 crash, at most 2 copies counted |
| `conversation` | edges agree, contexts are bounded and of one thread | 4 messages (two /event, the second inside the thread) over 2 stale rows, 6 writes, depth 3, budget 6 |
| `agent_reply` | what the model is sent, what its calls change, which messages are left in the chat | 1 update, text, known or unknown command, 2 executions, 1 crash, 1 round, 4 turns of 2 or 3 calls (at most 2 are taken), 2 requests or rows that fail |
| `completion` | the turn arrives as it was said, failures are told apart | 5 turns, 3 attempts, 2 foreign chunks, the three ways of asking |
| `members` | nobody waits for ever, the day's work claimed once a day, profiles of all messages | 2 members, one of them the administrator, 2 messages or /context in the group or in private, a photo, 3 days, 1 restart |
| `receipts_interrupted` | *violated*: an interrupted update is recovered | 1 update |

Why the bounds are enough. A race for a receipt has at most a first claimant, a
rival and the recovery, and needs tokens for each and for a claim after them.
Every kind of transaction of the store occurs with a partner that conflicts with
it: same identity, same event, same date, same key. Digests of two parts exist and
a third change comes late. A thread of four is longer than the depth and than the
budget, and has an `/event` root, a bot message with a provisional text, and
each order of storing and pruning. A run of one round already ends in each of its
ways (an answer, a failure, the deadline, the limit of rounds); a turn of three calls
is longer than what is taken of a turn, and the history of five messages does not fit. Two calls suffice to be
interleaved in a stream, and three attempts are all there are. Two refreshes
overlap with each other, with /context and with the daily job; three days have a
claim that is refused and one after it. The theorems of section 5 hold for every size.

`CHECK_DEADLOCK FALSE` is set where the program can really come to rest: clients
stop asking, administrators stop sending `/sync`, the message bound is reached.

Fairness. `FairSpec` of `Receipts`: workers of a process that lives go on, the
database answers, the recovery goes through its batch; nothing makes Telegram
accept a reply. `FairSpec` of `Announcements`: the watcher's ticker fires every
15 s (weak fairness), and a delivery or deletion that is tried again and again
succeeds some time (strong fairness), because refusals by Telegram or the
database are transient; `/sync` is a person's command and is not fair.
`FairSpec` of `AgentReply`: the handler's own steps, the deadline of the run and
the return of a request within its timeout; the model need not answer. `Spec` of
`Completion`: the client's steps, since a request ends after 90 s
(`internal/ai/ai.go`) and a pause ends; the provider is not fair, nor is the
caller's deadline. `Members` states no fairness: `NeverStuck` says with the guards
of its actions (`CanGoOn`, `JobCanGoOn`, without failures and timeouts) that whoever
is at work, or another it waits for, has a step to take.

### What the violation shows, and further configurations

`receipts_interrupted`: the startup query selects `pending` receipts only, so a
receipt that a dead process left in `processing` is not taken up again.

The configurations below are not among the runs. Each checks one more statement,
which TLC finds violated; run them with `tlc -config <name>.cfg <MC module>`.

| Configuration | What it shows |
|---|---|
| `ReceiptsPlain` | a plain message whose ingestion failed is answered by the recovery (`telegram.go:257`) |
| `ReceiptsMode` | the recovery reruns a request with other permissions (`telegram.go:396`) |
| `RequestsBatchRetry` | an exclusion leaves no `agent_mutations` row; a batch sent again does not find it and answers a conflict (`api.go:399`) |
| `RequestsTagged` | an exclusion from a series with tags is always stale (`operations.go:694`) |
| `RequestsETag` | the ETag of a PUT is computed from the request (`api.go:113`) |
| `RequestsIdentity` | a PUT of what GET returned turns a generated limit into identity (`recurrence.go:31`) |
| `RequestsBlamed` | a cancellation answers 412 to whatever error it meets (`api.go:263`), and a PUT after a read that failed in part |
| `ScheduleLogged` | the change log has an all-day event or tags as they came, not as they are stored: the payload is marshalled first (`operations.go:480`) |
| `ScheduleFeed` | a merged duplicate has no row in the change feed (`operations.go:612`) |
| `AnnouncementsLong` | the administrator's digest is not split; one that is too long is refused, and read again, for ever (`telegram.go:165`) |
| `ConversationLate` | a parent stored after its reply has the larger id and is removed by the cut on ids (`telegram.go:1443`) |
| `AgentReplyLate` | a progress edit that Telegram carries out after its timeout overwrites the answer (`telegram.go:1011`) |
| `CompletionBroken` | a response with status 200 that breaks off is reported as a refusal of the request and not asked for again (`chat.go:159`) |
| `MembersLeft` | who leaves is marked inactive and, as the sender of the service message, active again (`telegram.go:215`) |
| `MembersOlder` | of two refreshes of a profile the slower one wins, also if it has read less (`telegram.go:840`) |
| `MembersPrivate` | the administrator's private messages belong to his profile but start no refresh of it (`telegram.go:264`) |
| `MembersDaily` | the ticker comes every 24 hours and the claim wants more than 24 hours, so that a day may be left out (`telegram.go:631`) |

## 4. What each group of properties is for

* *Receipts*: `SingleActiveOwner`, `QuietWhenSettled` (nobody works on a receipt
  that is free), `ClaimEndsWithItsOwner` (tokens protect a later claim from a stale
  worker), `DoneAnswered`, `DoneIsFinal`, `PendingIsRetried`, `ClaimSettles`.
* *Schedule*: `OneEventPerIdentity`, `AppliedOnce`, `ReceiptsAgree`,
  `QueuesByOrigin`, `ChangesExplainEvents` (an event is what its last change says,
  once that is moved to midnight and its tags are respelled, or lost its identity to
  a later update, for which it has no change of its own), `ImplementsCalendar`.
* *Requests*: `AppliesToSeenVersion`, `RefusedOnlyIfStale` (for active events, as a
  cancelled one is answered 412 too, and as long as no statement fails: the two
  comparisons of versions, before the transaction and in it, are never wrong),
  `RetryNotRefused` (one execution at a time:
  with overlapping executions of one key the second can get a 412, and no
  document promises otherwise).
* *Announcements*: `GoneOnlyIfShown`, `NormallyOnce`, `QueuesInv` (types and
  `ShownInOrder`), `AdministratorIsTold`.
* *Conversation*: `EdgesAgree`, `ContextIsOneThread`, `ConversationInv` (types and
  `ChainBounded`), `ParentInContext`.
* *AgentReply*: `ReplyInv` (types; `EveryCallAnswered`, every call of a turn has its
  one answer before the model is asked again; `NotRepeated`; `EffectOnce`, also over
  several runs), `ContextIsNewest`, `NoEffectWithoutRight`, `ExecutionEnds`;
  `AnswerOnce`, `NothingLeftBehind` and `AnswerIsStored` (the chat after refused and
  lost requests, and what the conversation store has of it).
* *Completion*: `TurnIsExact`, `CallsAreSound` (types; `NothingInvented`;
  `CallsCanBeRun`, what `AgentLoop` relies on), `TransientIsMasked` (no connection,
  429 and 5xx are never reported as a refusal, and a refusal is at once; a body of
  status 200 that breaks off is excepted, see `CompletionBroken`), `ChatEnds`.
* *Members*: `NeverStuck`, `DailyRuns` (no restart and no early tick gets a second
  claim within a day, and after a refused claim the next comes before the last granted
  one is two days old; the work after a claim is lost with the process, and an early
  tick may skip a day, see `MembersDaily`), `MembersInv` (types; `MarkedAfterNote`, no
  photo is used up without a note), `ProfileIsCurrent` (up to the last text in the
  group, and with the exceptions it names).

Section 5 says which of them are theorems. The types of `Receipts` and of
`Schedule` are theorems only.

## 5. Proofs

`ReceiptsProofs`: `TypeCorrect`, `OneActiveOwner`, `SettledIsQuiet`,
`DoneIsAnswered`, `DoneStaysDone`, `OnlyTheOwnerEndsAClaim`, `ClaimsSettle`,
`PendingAreRetried` and `ReceiptsImplementOwnership`, from `ReceiptsAssumption` and,
for the three that depend on time, `LeaseTiming`. The inductive invariant has three parts:
`Structure` (types, which fields a worker has in each of its steps, and that no
two hold one token), `Covered` (an active worker's receipt carries its token, and
its lease is at least as long as the worker can stay silent) and
`AnsweredBeforeDone`. `Covered` is what makes single ownership inductive: that two
workers are not active says nothing about the time that the first still has.

`ClaimsSettle` is the liveness property `ClaimSettles`, from `"db" \notin Faults` and
fairness but not from `LeaseTiming`: a claim may pass to another worker when its
lease is over, and the theorem says that this cannot go on. From one start of the
process to its end the handler that got the update and the recovery can claim it
once each (`DeliveredOnce`, `RivalsNeverRise`), a claim that has begun is held by
somebody until it is settled (`NoneAbandoned`), and three times those who may still
claim plus the steps the holder has left never rise and fall with each of his
steps (`WithinGoesDown`).

`PendingAreRetried` is the liveness property `PendingIsRetried`, with three hypotheses.
`BatchHolds` says that there are never more stored pending updates than the limit of
the recovery's query (100): with more, the rest waits for the next start. The database answers, and
`RecoveryReaches` says that the loop comes to each entry it has read. `LoadCovers`
counts: a query that leaves something out returns `RecoveryBatch` rows, and there are
not more. `PendingForStays` says that nothing that a handler or a redelivery does
takes a pending update away from the recovery, except by claiming it.

`ScheduleProofs`: `TypeCorrect`, `ScheduleShowsEachEventOnce`, `MutationsApplyOnce`,
`ReceiptsNeverDisagree`, `ChangesReachTheirQueue`, `StoreImplementsCalendar`. Every
transaction has one of five effects (it adds a row, rewrites one, withdraws one,
leaves a date out, or only answers), and each invariant is proved once per effect
rather than once per code path. `StoreInv` adds to the properties that active rows
hold their dedupe keys (`KeysHeld`, `KeysUnique`) and that each logged change has
its receipt (`ChangesExplained`): without the first, a rewrite could give a row
the identity of another; without the second, a key without a receipt could have
been applied.

`ConversationProofs`: `EdgesAlwaysAgree` and `ContextIsOfOneThread`, for any messages
that Telegram may number, where a reply names a smaller number. The invariant of
the table says of each edge where it leads (`Edges`), which the choice in `Lookup`
hides. The walk is sound because of what the writes cannot do while a handler
reads (`IdsKept`): the row of its message stays, so an id below it is never given to
another message, and a row that is stored over keeps its number. The first needs
`Expired`, the assumption that a message being answered is not pruned.

`ConversationInvHolds` (types and `ChainBounded`) and `ContextsHaveTheParent` are in
the same module. `ChainBounded` is about a computation and holds of every sequence of
messages that can have been read: `FittingTailIs` says what `boundRecent` keeps,
`WithinDepthIs` and `WithinBudgetIs` what each cut keeps of the one before, and
`ReplyChainIs` composes them. It was stated before as if only the /event that begins
a thread could be kept out of place. The proof does not go through with that: after
the cut to `Depth` any message may come first, and if it is an /event, the second
cut takes it for a root (`service.go:290`). The property now says so, and the run's
messages have the case. `ContextsHaveTheParent` follows the parent through
`WithParentIs`, `WithCurrentIs` and `InOrderIs`, and needs `ParentReplied` of the
state: while a message is answered, the id of its parent is not given to another
row, as long as it is the smaller one.

`ChangeLogExplainsSchedule` is about a choice among the changes of an event, which
says nothing of how it changes with the log. It compares the event with
`Columns` of what was logged, since `Apply` marshals the payload before it rewrites
the day and the tags. The invariant `EventsTold` names for each event
a change that is its last one and tells what it is now, or, for an event whose
identity another took, the later change that took it; the choice is shown to be
that change at the end (`LastChangeIs`).

About the callers, `ScheduleProofs` has `RequestsIInvHolds`,
`RequestsImplementStore` (every behaviour of the callers is one of the store, so
that the theorems about the store hold under stale reads, retries, overlaps and
crashes), `ChangesApplyToSeenVersions`, `RefusalsAreOfStaleClients` and
`RetriesAreNotRefused`. The invariant `Fits` puts every execution at an item of its own
request, with versions of that request's targets; that Hermes' are those its
request was written for (`SeenForHermes`) makes the comparison inside the
transaction one with what the client saw. Two of the theorems have a hypothesis:

* `RefusalsAreOfStaleClients` is about "stale", the answer to a comparison of versions;
  what is answered to a failed statement is "blamed" and excepted. It holds without tags, or if Hermes excludes no occurrence:
  an exclusion from a series with tags is always answered as stale, which the
  configuration `RequestsTagged` shows.
* `RetriesAreNotRefused` holds without exclusions (`RequestsBatchRetry` shows why)
  and as long as no request is executed twice at once (`[]OneAtATime`): with
  overlapping executions the second may find the version that the first has made.

`AnnouncementsProofs`: `PublishedNormallyOnce`, `QueuesAreShownInOrder`,
`NothingGoneUnshown`, `OldestIsTold`. The invariant says that what a `/sync` has read
stays the old part of the queue for as long as it runs (`Reading`: only the holder of the mutex
deletes), that all it has sent was shown (`Sending`), and, while nothing has gone
wrong, that a change that was shown and is still queued was sent by a `/sync` that is
about to delete it (`Showing`); the last is what makes "not twice" inductive.
`OldestIsTold` is the step of `AdministratorIsTold`: the oldest change that waits is
in every digest that is read, stays the oldest, and leaves the queue. Its hypothesis
`DigestsFit` (every digest fits into one message) is what the code does not ensure,
as `AnnouncementsLong` shows. That every change becomes the oldest is an induction
over those before it.

`AgentReplyProofs`: `CallsAnsweredAndMadeOnce`, `ContextIsTheNewest`,
`AnsweredOnce`, `OnlyTheAnswerIsLeft`, `TheAnswerIsStored`, `GroupChangesNothing`,
`ExecutionsEnd`, `FairExecutionsEnd`, for any turns, sizes, rounds, attempts, faults
and crashes. About a run, the invariant
says that the answers got and the calls left add up to the current turn (`Calling`),
that executions and effects are what the run and the store remember
(`ExecutionsCounted`, `StoreCounted`), and that the messages removed are the oldest
removable ones, the newest of which did not fit (`Trimmed`; sizes are sums over
sets). About the chat, it says at each place of the handler how many messages
there are and what they show, as long as nothing was reported wrongly
(`Delivered`, `Single`, `Tidy`), and that only a command needs no reply (`Places`). `GroupChangesNothing` follows from `ToolsFor` alone.
`ExecutionsEnd` and `FairExecutionsEnd` are the liveness property `ExecutionEnds`. They
need no bound on the rounds: a run that is not over is at one place until its
deadline (`OutOfTime`), and from there to the receipt there are at most seven steps
of the handler (`LeftGoesDown`), whatever Telegram answers.

`CompletionProofs`: `TurnsAreExact`, `CallsAreAlwaysSound`, `FailuresAreMasked`,
`StepsRunOut`, `EveryChatEnds` and `FairChatsEnd`, from
`CompletionAssumption` (texts are sequences; a call comes in at least one piece).
The invariant says of each call how much of it is decoded and where. A first
piece without an index goes to the place of the first call; as long as nothing of
that call has come it stays there unnoticed (`Misplaced`), and the invariant says what keeps
a turn from being made of it: its later pieces have no name, and a piece of the
first call conflicts with its id. The last needs ids that are not empty, which
the attempt to prove it showed: of two calls without an id, the pieces of both would
be joined without an error, so `OwnIds` asks for ids that are there and distinct.
`Places` gives the indexes by their rank, and the fold over the pieces of a message
is shown to be any function that merges its parts in order (`FoldIs`). The client
has three steps in each of three attempts (`StepsLeft`); no other step raises the
number, so it reaches zero (`OneLess` nine times), which is `ChatEnds`.

`MembersProofs`: `PhotosAreMarkedAfterTheirNote`, `RestingProfilesAreCurrent`,
`ClaimsAreADayApart`, `NobodyIsStuck`, for any users, messages, days and restarts. A
profile that lacks texts it is due has a refresh under way that has read them or will (`Current`); the photos
that are about to be marked are in a saved note (`Photographed`); the next tick is at
most a day away (`Timed`). That nobody is stuck rests on `InUse`: between
two steps only a refresh that is reading its cursor has the connection.

The assumptions on constants are `ASSUME`s of the modules, evaluated in every run:
sets and numbers of the kinds the code has (`Depth`, which is 16, at least two, which
`ChainBounded` needs to keep more than one message of a thread), `NoVersionAssumption`
(no version is the value that stands for none) and `RequestsAssumption` (every key is one item of
one request). Induction over data is not available to the prover; where a sum, a fold
or a rank over a finite set is needed, the proof takes a smallest counterexample
(`SmallestSet`) or counts (`RanksAreTaken`). `SetLemmas` has these: that a sum may
begin with any member (`SumWith`), and that each number up to the size of a set is the
rank of one member.

The liveness theorems state their fairness in the form "again and again the step is
not possible, or again and again it is taken" (`ClientGoesOn`, `HolderGoesOn`,
`HandlerGoesOn`, `WatcherGoesOn`, `RecoveryReaches`), because the prover
does not compute `ENABLED`. Where one weak fairness is all that is needed, a second theorem (`FairChatsEnd`,
`FairExecutionsEnd`) derives it from the fairness of the specification and from the
enabledness of that step, and TLC, which checks the property itself under that
fairness, confirms on the instance that the step is enabled. `DeadlinePasses` is the
timer of `RunTimeout`. `HolderGoesOn` follows from `Fairness` of `Receipts` because a
claim changes hands at most twice in the life of a process, and `RecoveryReaches` because the recovery's batch
only shrinks; TLC confirms both on the instance of `receipts_live`.

Model-checked only: `AdministratorIsTold` beyond its oldest change, and the step of
`PendingIsRetried` from the fairness of the recovery's loop to `RecoveryReaches`. Both
are inductions over a queue (the changes before this one, the entries of the batch
before this one), which the prover cannot make of a temporal formula. Every other
property of a passing run is stated by a theorem.

## 6. What is not modelled

* Conflict warnings of the schedule, which no write depends on, and its queries.
* A client-supplied `status` of a creation is taken as active.
* The text of messages, digests and prompts; the full-text search; reminders.
* `FindConversationRoot`: only tests call it, although `docs/architecture.md`
  describes it as the source of authority over an `/event`.
* In a group, a progress line of a thinking message is not excluded from a chain or
  from `Recent` (`service.go:183` excludes the placeholder only); in private, the
  message answered can be in the context twice if another was stored after it.
  The model has both; no property forbids them.
* The division of a long answer into parts and its entities. The commands that send
  several messages (/calendar, /people, /all) are answered by one in `AgentReply`.
* `AI_STRICT_TOOLS`: the rewriting of tool schemas, and of the arguments that come back
  (`normalizeStrictCalls` takes out the null properties that a tool does not require).
  Transcription and vision.
* Failing statements in `Members`. That a profile is made of the first 4000 bytes of
  "every retained group message" (`telegram.go:801`) is a limit on text. A photo that
  could not be described is marked with the others of its batch (`Mark` has it), and
  the next message of a member replaces the note on his photos (`Save` has it).
  `text_context_entries` is written and never read.
* The release tag watcher: one goroutine with one row.
* Dashboard, roster, recurrence arithmetic, categories, configuration,
  migrations: see the notes in `PROJECT.json`.

## 7. Plan

Done: 1. `Receipts`; 2. `Schedule` with `ScheduleRequests`; 3. `Announcements`;
4. `Conversation`; 5. `AgentReply` with `AgentLoop` and `Delivery`;
6. `Completion`; 7. `Members`; theorems about each. Next, in order of importance:

8. `Recurrence`: compilation, horizons and identity of rules as functions, checked
   against a reference over small calendars.
9. The release tag watcher.
