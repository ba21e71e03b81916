------------------------------ MODULE Receipts ------------------------------
(***************************************************************************)
(* Ownership of incoming Telegram updates (internal/telegram/telegram.go). *)
(*                                                                         *)
(* Every accepted update is claimed in the table telegram_receipts with a  *)
(* fresh random token and a two minute lease, stored by the conversation   *)
(* service, routed (agent, command or plain message), and its receipt is   *)
(* then completed or released under the same token.  The handler renews    *)
(* the lease while it works; the startup pass recoverPendingReceipts does  *)
(* not.  The process may die at any point and be started again; Telegram   *)
(* delivers again every update whose long-poll offset was not confirmed.   *)
(*                                                                         *)
(* Time is counted in ticks.  A lease is kept as the ticks it has left:    *)
(* lease_until < now in the code is leaseLeft < 0 here, so no clock value  *)
(* has to be bounded.  The random token is a member of Tokens that nobody  *)
(* holds, which is all its randomness is used for.                         *)
(***************************************************************************)
EXTENDS Integers, FiniteSets

CONSTANTS
    Updates,        \* Telegram updates, identified by (chat_id, message_id)
    Handlers,       \* concurrent executions of handle; a bound on concurrency
    Recovery,       \* the goroutine that runs recoverPendingReceipts
    Tokens,         \* claim tokens
    NoToken,        \* claim_token IS NULL
    NoUpdate,       \* a worker with nothing to do
    Route,          \* what handle does with each update, from its text
    Private,        \* updates from the administrator's private chat
    Lease,          \* length of a lease, in ticks (2 minutes)
    RenewEvery,     \* period of the renewal ticker (30 seconds)
    MaxMisses,      \* consecutive renewals a failing database can swallow
    IngestTime,     \* longest time from the claim to the first renewal timer
    RecoveryTime,   \* longest time recovery works on one update
    RecoveryBatch,  \* LIMIT of the recovery query (100)
    Faults          \* what can fail: the database, sending, the download or
                    \* transcription of voice messages, a missing agent client

Workers == Handlers \cup {Recovery}
Modes == {"group", "group_write", "admin_private"}

ASSUME ReceiptsAssumption ==
    /\ Recovery \notin Handlers
    /\ NoToken \notin Tokens
    /\ NoUpdate \notin Updates \cup Workers
    /\ Route \in [Updates -> {"agent", "command", "ordinary"}]
    /\ Private \subseteq Updates
    /\ Lease \in Nat
    /\ RenewEvery \in Nat
    /\ MaxMisses \in Nat
    /\ IngestTime \in Nat
    /\ RecoveryTime \in Nat
    /\ RecoveryBatch \in Nat \ {0}
    /\ Faults \subseteq {"db", "send", "voice", "agent"}

VARIABLES
    status,      \* telegram_receipts.status, "none" when there is no row
    claimToken,  \* telegram_receipts.claim_token
    leaseLeft,   \* telegram_receipts.lease_until - now, never below -1
    stored,      \* updates that have a row in messages
    telegram,    \* Telegram's side: "queued", "delivered" or "confirmed"
    up,          \* whether the process runs
    pc,          \* what each worker is doing
    job,         \* the update each worker is handling
    token,       \* the claim token each worker holds
    timer,       \* ticks before the worker's next deadline
    misses,      \* renewals that failed since the last one that succeeded
    renewing,    \* handlers whose renewal goroutine is running
    todo,        \* entries the recovery query returned and not yet visited
    modes,       \* modes in which the agent was run for each update
    answered     \* updates whose reply was accepted by Telegram

receiptVars == <<status, claimToken, leaseLeft>>
workerVars == <<pc, job, token, timer, misses, renewing>>
historyVars == <<modes, answered>>
vars == <<receiptVars, stored, telegram, up, workerVars, todo, historyVars>>

-----------------------------------------------------------------------------
Init ==
    /\ status = [u \in Updates |-> "none"]
    /\ claimToken = [u \in Updates |-> NoToken]
    /\ leaseLeft = [u \in Updates |-> -1]
    /\ stored = {}
    /\ telegram = [u \in Updates |-> "queued"]
    /\ up = TRUE
    /\ pc = [w \in Workers |-> IF w = Recovery THEN "starting" ELSE "idle"]
    /\ job = [w \in Workers |-> NoUpdate]
    /\ token = [w \in Workers |-> NoToken]
    /\ timer = [w \in Workers |-> 0]
    /\ misses = [w \in Workers |-> 0]
    /\ renewing = {}
    /\ todo = {}
    /\ modes = [u \in Updates |-> {}]
    /\ answered = {}

\* Workers between their claim and the end of their work on the update.
Active(w) == pc[w] \in {"claimed", "running"}

\* A token nobody holds and no receipt carries.
FreshTokens ==
    {t \in Tokens : /\ \A w \in Workers : token[w] # t
                    /\ \A u \in Updates : claimToken[u] # t}

LeaseExpired(u) == status[u] = "processing" /\ leaseLeft[u] < 0

\* Faulty variants of Claimable: the lease is not looked at, a done receipt is
\* claimed again, a released receipt is never claimed.
ClaimableIgnoringLease(u) == status[u] # "done"
ClaimableWhenDone(u) == status[u] # "processing" \/ LeaseExpired(u)
ClaimableOnce(u) == status[u] = "none" \/ LeaseExpired(u)

\* The WHERE clause of the claiming UPDATE; "none" is the INSERT's case.
Claimable(u) == status[u] \in {"none", "pending"} \/ LeaseExpired(u)

\* Faulty variant of Owns: any claim on the update will do.
OwnsAnyClaim(w) == status[job[w]] = "processing"

\* The WHERE clause of renewal, completion and release.
Owns(w) == /\ status[job[w]] = "processing"
           /\ claimToken[job[w]] = token[w]

\* The worker forgets its update.
GoIdle(w) ==
    /\ pc' = [pc EXCEPT ![w] = "idle"]
    /\ job' = [job EXCEPT ![w] = NoUpdate]
    /\ token' = [token EXCEPT ![w] = NoToken]
    /\ timer' = [timer EXCEPT ![w] = 0]
    /\ misses' = [misses EXCEPT ![w] = 0]
    /\ renewing' = renewing \ {w}

-----------------------------------------------------------------------------
(* The receipt statements.                                                 *)

\* claimReceipt wins update u for worker w, which then has d ticks before
\* its next deadline.  The INSERT succeeds when there is no row; otherwise the
\* UPDATE alone decides, so the two statements are one step.
ClaimReceipt(w, u, d) ==
    /\ Claimable(u)
    /\ \E t \in FreshTokens :
          /\ status' = [status EXCEPT ![u] = "processing"]
          /\ claimToken' = [claimToken EXCEPT ![u] = t]
          /\ leaseLeft' = [leaseLeft EXCEPT ![u] = Lease]
          /\ token' = [token EXCEPT ![w] = t]
    /\ pc' = [pc EXCEPT ![w] = "claimed"]
    /\ job' = [job EXCEPT ![w] = u]
    /\ timer' = [timer EXCEPT ![w] = d]
    /\ UNCHANGED <<misses, renewing>>

\* Leave the processing state under the worker's own token.
Settle(w, final) ==
    /\ Owns(w)
    /\ status' = [status EXCEPT ![job[w]] = final]
    /\ claimToken' = [claimToken EXCEPT ![job[w]] = NoToken]
    /\ leaseLeft' = [leaseLeft EXCEPT ![job[w]] = -1]

\* completeReceipt and releaseReceipt: the conditional update, or an error
\* (claim lost, database failure) that the caller only logs.
Finalize(w, step, final) ==
    /\ up
    /\ pc[w] = step
    /\ \/ Settle(w, final)
       \/ /\ ~Owns(w) \/ "db" \in Faults
          /\ UNCHANGED receiptVars
    /\ GoIdle(w)
    /\ UNCHANGED <<stored, telegram, up, todo, historyVars>>

CompleteReceipt(w) == Finalize(w, "completing", "done")

\* Faulty variant of ReleaseReceipt: no update at all.
ReleaseForgotten(w) ==
    /\ up
    /\ pc[w] = "releasing"
    /\ GoIdle(w)
    /\ UNCHANGED <<receiptVars, stored, telegram, up, todo, historyVars>>

ReleaseReceipt(w) == Finalize(w, "releasing", "pending")

-----------------------------------------------------------------------------
(* handle: one execution per delivered update.                             *)

\* Long polling hands a queued update to a new execution of handle.
Receive(w, u) ==
    /\ up
    /\ pc[w] = "idle"
    /\ telegram[u] = "queued"
    /\ telegram' = [telegram EXCEPT ![u] = "delivered"]
    /\ pc' = [pc EXCEPT ![w] = "received"]
    /\ job' = [job EXCEPT ![w] = u]
    /\ UNCHANGED <<receiptVars, stored, up, token, timer, misses, renewing,
                   todo, historyVars>>

\* The next long poll carries an offset past the update.
Confirm(u) ==
    /\ up
    /\ telegram[u] = "delivered"
    /\ telegram' = [telegram EXCEPT ![u] = "confirmed"]
    /\ UNCHANGED <<receiptVars, stored, up, workerVars, todo, historyVars>>

HandlerClaim(w) ==
    /\ up
    /\ pc[w] = "received"
    /\ ClaimReceipt(w, job[w], IngestTime)
    /\ UNCHANGED <<stored, telegram, up, todo, historyVars>>

\* handle returns without a claim: the receipt belongs to someone else or is
\* done, the member upsert or the claim failed in the database, or a voice
\* message could not be downloaded or transcribed (its sender is told so, and
\* nothing tries the update again).
HandlerSkips(w) ==
    /\ up
    /\ pc[w] = "received"
    /\ ~Claimable(job[w]) \/ Faults \cap {"db", "voice"} # {}
    /\ GoIdle(w)
    /\ UNCHANGED <<receiptVars, stored, telegram, up, todo, historyVars>>

\* The agent mode handle uses for an update addressed to the bot.
HandlerMode(u) == IF u \in Private THEN "admin_private" ELSE "group_write"

\* Ingest succeeds, the renewal goroutine starts and handle routes the update.
Ingest(w) ==
    /\ up
    /\ pc[w] = "claimed" /\ w \in Handlers
    /\ stored' = stored \cup {job[w]}
    /\ pc' = [pc EXCEPT ![w] = "running"]
    /\ timer' = [timer EXCEPT ![w] = RenewEvery]
    /\ renewing' = renewing \cup {w}
    /\ modes' = IF Route[job[w]] = "agent"
                THEN [modes EXCEPT ![job[w]] = @ \cup {HandlerMode(job[w])}]
                ELSE modes
    /\ UNCHANGED <<receiptVars, telegram, up, job, token, misses, todo, answered>>

\* Ingest reports an error.  The row may be there all the same: insert reads
\* it back after its commit, and that read fails when the context is done.
IngestFails(w) ==
    /\ up
    /\ pc[w] = "claimed" /\ w \in Handlers
    /\ "db" \in Faults
    /\ stored' \in {stored, stored \cup {job[w]}}
    /\ pc' = [pc EXCEPT ![w] = "releasing"]
    /\ UNCHANGED <<receiptVars, telegram, up, job, token, timer, misses,
                   renewing, todo, historyVars>>

\* Updates whose work is finished by sending a reply that may fail.
NeedsAnswer(u) == Route[u] = "agent"

\* A plain message or a command ends with completed = true whatever the
\* delivery of its reply did.
WorkWithoutAgent(w) ==
    /\ up
    /\ pc[w] = "running" /\ w \in Handlers
    /\ ~NeedsAnswer(job[w])
    /\ \/ UNCHANGED answered
       \/ /\ Route[job[w]] = "command"
          /\ answered' = answered \cup {job[w]}
    /\ pc' = [pc EXCEPT ![w] = "completing"]
    /\ renewing' = renewing \ {w}
    /\ UNCHANGED <<receiptVars, stored, telegram, up, job, token, timer, misses,
                   todo, modes>>

\* runAgentReply returns nil only when Telegram accepted the reply (or the
\* text that reports the agent's error); recovery runs it for every entry.
AgentReplySent(w) ==
    /\ up
    /\ pc[w] = "running"
    /\ w = Recovery \/ NeedsAnswer(job[w])
    /\ answered' = answered \cup {job[w]}
    /\ pc' = [pc EXCEPT ![w] = "completing"]
    /\ renewing' = renewing \ {w}
    /\ UNCHANGED <<receiptVars, stored, telegram, up, job, token, timer, misses,
                   todo, modes>>

\* Faulty variant of AgentReplyFails: the error is swallowed.
ReplyErrorIgnored(w) ==
    /\ up
    /\ pc[w] = "running"
    /\ "send" \in Faults
    /\ w = Recovery \/ NeedsAnswer(job[w])
    /\ pc' = [pc EXCEPT ![w] = "completing"]
    /\ renewing' = renewing \ {w}
    /\ UNCHANGED <<receiptVars, stored, telegram, up, job, token, timer, misses,
                   todo, historyVars>>

\* The reply was refused, or it was delivered and the answer was lost, or
\* there is no agent to ask.
AgentReplyFails(w) ==
    /\ up
    /\ pc[w] = "running"
    /\ w = Recovery \/ NeedsAnswer(job[w])
    /\ \/ /\ "send" \in Faults
          /\ answered' \in {answered, answered \cup {job[w]}}
       \/ /\ "agent" \in Faults
          /\ UNCHANGED answered
    /\ pc' = [pc EXCEPT ![w] = "releasing"]
    /\ renewing' = renewing \ {w}
    /\ UNCHANGED <<receiptVars, stored, telegram, up, job, token, timer, misses,
                   todo, modes>>

-----------------------------------------------------------------------------
(* renewReceipt: one tick of a handler's renewal goroutine.                *)

RenewalDue(w) == up /\ w \in renewing /\ timer[w] = 0

\* Faulty variant of Renew: the lease is written back unchanged.
RenewWithoutExtending(w) ==
    /\ RenewalDue(w)
    /\ Owns(w)
    /\ timer' = [timer EXCEPT ![w] = RenewEvery]
    /\ UNCHANGED <<receiptVars, misses, stored, telegram, up, pc, job, token,
                   renewing, todo, historyVars>>

Renew(w) ==
    /\ RenewalDue(w)
    /\ Owns(w)
    /\ leaseLeft' = [leaseLeft EXCEPT ![job[w]] = Lease]
    /\ timer' = [timer EXCEPT ![w] = RenewEvery]
    /\ misses' = [misses EXCEPT ![w] = 0]
    /\ UNCHANGED <<status, claimToken, stored, telegram, up, pc, job, token,
                   renewing, todo, historyVars>>

\* A database error is logged and the ticker goes on.
RenewFails(w) ==
    /\ RenewalDue(w)
    /\ "db" \in Faults
    /\ misses[w] < MaxMisses
    /\ timer' = [timer EXCEPT ![w] = RenewEvery]
    /\ misses' = [misses EXCEPT ![w] = @ + 1]
    /\ UNCHANGED <<receiptVars, stored, telegram, up, pc, job, token, renewing,
                   todo, historyVars>>

\* The claim is lost: the goroutine ends, and the handler works on.
RenewLost(w) ==
    /\ RenewalDue(w)
    /\ ~Owns(w)
    /\ renewing' = renewing \ {w}
    /\ UNCHANGED <<receiptVars, stored, telegram, up, pc, job, token, timer,
                   misses, todo, historyVars>>

-----------------------------------------------------------------------------
(* recoverPendingReceipts: once, when the process starts.                  *)

Recoverable == {u \in stored : status[u] = "pending"}

\* The query reads at most RecoveryBatch entries; which ones is left open.
RecoveryLoad ==
    /\ up
    /\ pc[Recovery] = "starting"
    /\ \/ \E S \in SUBSET Recoverable :
             /\ Cardinality(S) <= RecoveryBatch
             /\ S # Recoverable => Cardinality(S) = RecoveryBatch
             /\ todo' = S
       \/ "db" \in Faults /\ todo' = {}
    /\ pc' = [pc EXCEPT ![Recovery] = "idle"]
    /\ UNCHANGED <<receiptVars, stored, telegram, up, job, token, timer, misses,
                   renewing, historyVars>>

RecoveryClaim(u) ==
    /\ up
    /\ pc[Recovery] = "idle"
    /\ u \in todo
    /\ todo' = todo \ {u}
    /\ \/ ClaimReceipt(Recovery, u, RecoveryTime)
       \/ /\ ~Claimable(u) \/ "db" \in Faults
          /\ UNCHANGED <<receiptVars, workerVars>>
    /\ UNCHANGED <<stored, telegram, up, historyVars>>

\* The mode recovery chooses, which is not the mode handle chose.
RecoveryMode(u) == IF u \in Private THEN "admin_private" ELSE "group"

RecoveryRun ==
    /\ up
    /\ pc[Recovery] = "claimed"
    /\ \/ /\ pc' = [pc EXCEPT ![Recovery] = "running"]
          /\ modes' = [modes EXCEPT ![job[Recovery]] =
                          @ \cup {RecoveryMode(job[Recovery])}]
       \/ /\ "db" \in Faults
          /\ pc' = [pc EXCEPT ![Recovery] = "releasing"]
          /\ UNCHANGED modes
    /\ UNCHANGED <<receiptVars, stored, telegram, up, job, token, timer, misses,
                   renewing, todo, answered>>

-----------------------------------------------------------------------------
(* The environment: the process, its supervisor, and time.                 *)

\* The process dies with everything it had in memory.
Crash ==
    /\ up
    /\ up' = FALSE
    /\ telegram' = [u \in Updates |-> IF telegram[u] = "delivered"
                                      THEN "queued" ELSE telegram[u]]
    /\ pc' = [w \in Workers |-> "idle"]
    /\ job' = [w \in Workers |-> NoUpdate]
    /\ token' = [w \in Workers |-> NoToken]
    /\ timer' = [w \in Workers |-> 0]
    /\ misses' = [w \in Workers |-> 0]
    /\ renewing' = {}
    /\ todo' = {}
    /\ UNCHANGED <<receiptVars, stored, historyVars>>

Restart ==
    /\ ~up
    /\ up' = TRUE
    /\ pc' = [pc EXCEPT ![Recovery] = "starting"]
    /\ UNCHANGED <<receiptVars, stored, telegram, job, token, timer, misses,
                   renewing, todo, historyVars>>

\* A worker whose deadline bounds how far time may go.
Timed(w) == \/ pc[w] = "claimed"
            \/ pc[w] = "running" /\ (w = Recovery \/ w \in renewing)

Tick ==
    /\ \A w \in Workers : Timed(w) => timer[w] > 0
    /\ timer' = [w \in Workers |-> IF Timed(w) THEN timer[w] - 1 ELSE timer[w]]
    /\ leaseLeft' = [u \in Updates |-> IF leaseLeft[u] >= 0
                                       THEN leaseLeft[u] - 1 ELSE leaseLeft[u]]
    /\ UNCHANGED <<status, claimToken, stored, telegram, up, pc, job, token,
                   misses, renewing, todo, historyVars>>

-----------------------------------------------------------------------------
HandlerStep(w) ==
    \/ \E u \in Updates : Receive(w, u)
    \/ HandlerClaim(w)
    \/ HandlerSkips(w)
    \/ Ingest(w)
    \/ IngestFails(w)
    \/ WorkWithoutAgent(w)
    \/ Renew(w)
    \/ RenewFails(w)
    \/ RenewLost(w)

WorkerStep(w) ==
    \/ AgentReplySent(w)
    \/ AgentReplyFails(w)
    \/ CompleteReceipt(w)
    \/ ReleaseReceipt(w)

RecoveryStep ==
    \/ RecoveryLoad
    \/ \E u \in Updates : RecoveryClaim(u)
    \/ RecoveryRun

Next ==
    \/ \E w \in Handlers : HandlerStep(w)
    \/ \E w \in Workers : WorkerStep(w)
    \/ RecoveryStep
    \/ \E u \in Updates : Confirm(u)
    \/ Crash
    \/ Restart
    \/ Tick

Spec == Init /\ [][Next]_vars

\* Goroutines keep running, every network call and statement of a live
\* process returns, the supervisor restarts a dead process, and Telegram keeps
\* offering what was not confirmed.  Nothing is assumed of crashes, of
\* failures, or of how long an update waits to be delivered.
Fairness ==
    /\ \A w \in Handlers :
          /\ WF_vars(HandlerClaim(w) \/ HandlerSkips(w) \/ Ingest(w) \/ IngestFails(w))
          /\ WF_vars(WorkWithoutAgent(w) \/ WorkerStep(w))
          /\ WF_vars(Renew(w) \/ RenewFails(w) \/ RenewLost(w))
    /\ WF_vars(RecoveryStep)
    /\ WF_vars(WorkerStep(Recovery))
    /\ \A u \in Updates : WF_vars(\E w \in Handlers : Receive(w, u))
    /\ WF_vars(Restart)
    /\ WF_vars(Tick)

FairSpec == Spec /\ Fairness

-----------------------------------------------------------------------------
(* Properties.                                                             *)

\* Every variable has its type.
TypeOK ==
    /\ status \in [Updates -> {"none", "processing", "pending", "done"}]
    /\ claimToken \in [Updates -> Tokens \cup {NoToken}]
    /\ leaseLeft \in [Updates -> -1 .. Lease]
    /\ stored \in SUBSET Updates
    /\ telegram \in [Updates -> {"queued", "delivered", "confirmed"}]
    /\ up \in BOOLEAN
    /\ pc \in [Workers -> {"starting", "idle", "received", "claimed", "running",
                           "completing", "releasing"}]
    /\ job \in [Workers -> Updates \cup {NoUpdate}]
    /\ token \in [Workers -> Tokens \cup {NoToken}]
    /\ timer \in [Workers -> Nat]
    /\ misses \in [Workers -> 0 .. MaxMisses]
    /\ renewing \in SUBSET Handlers
    /\ todo \in SUBSET Updates
    /\ modes \in [Updates -> SUBSET Modes]
    /\ answered \in SUBSET Updates

\* The lease outlives the longest silence of an owner that is still working:
\* ingestion followed by every renewal the database may swallow, and a
\* recovery run, which renews nothing.
LeaseTiming ==
    /\ IngestTime + RenewEvery * (MaxMisses + 1) <= Lease
    /\ RecoveryTime <= Lease

\* Two workers never work on one update at the same time: the redelivered
\* update and the startup recovery of the same receipt exclude each other, and
\* a slow but renewing handler is never preempted.
SingleActiveOwner ==
    \A v, w \in Workers :
        Active(v) /\ Active(w) /\ job[v] = job[w] => v = w

\* Nobody works on an update whose receipt is pending or done: work that was
\* completed is not under way again elsewhere, and work that was released is
\* not still going on.
QuietWhenSettled ==
    \A w \in Workers : Active(w) => status[job[w]] = "processing"

\* A receipt is done only if Telegram accepted the reply the update asked for.
DoneAnswered ==
    \A u \in Updates : status[u] = "done" /\ NeedsAnswer(u) => u \in answered

\* A claim whose lease has not expired ends only with the worker that holds
\* its token: neither a stale worker nor another claim can end it.
ClaimEndsWithItsOwner ==
    [][\A u \in Updates :
          status[u] = "processing" /\ leaseLeft[u] >= 0 /\ claimToken'[u] # claimToken[u]
          => \E w \in Workers : /\ job[w] = u /\ token[w] = claimToken[u]
                               /\ ~Active(w) /\ job'[w] = NoUpdate]_vars

\* A completed update is never claimed, released or completed again, however
\* often Telegram delivers it and the process restarts.
DoneIsFinal ==
    [][\A u \in Updates : status[u] = "done" => status'[u] = "done"]_vars

\* A receipt the startup query can see is claimed again (or its process dies).
PendingIsRetried ==
    \A u \in Updates :
        (pc[Recovery] = "starting" /\ u \in Recoverable)
            ~> (status[u] # "pending" \/ ~up)

\* While the process lives and its database answers, an update that was
\* claimed does not stay claimed: its receipt is completed or released.
ClaimSettles ==
    \A w \in Workers : \A u \in Updates :
        (Active(w) /\ job[w] = u) ~> (status[u] # "processing" \/ ~up)

\* The comment of recoverPendingReceipts and docs/architecture.md: an update
\* interrupted by a process failure is recovered, so an ingested update is
\* done in the end once the process stops dying.
InterruptedRecovered ==
    <>[]up => \A u \in Updates : (u \in stored) ~> (status[u] = "done")

\* docs/architecture.md: the bot reacts to no ordinary group message.
PlainMessageUnanswered ==
    \A u \in Updates : Route[u] = "ordinary" => u \notin answered /\ modes[u] = {}

\* The comment of recoverPendingReceipts: recovery retries the update, so it
\* runs the agent in the mode the update was first given.
RetryKeepsMode ==
    \A u \in Updates : NeedsAnswer(u) => modes[u] \subseteq {HandlerMode(u)}

-----------------------------------------------------------------------------
(* What the receipts promise: UpdateOwnership, with the worker that is      *)
(* working on an update as its owner.                                      *)

WorkingOn(u) == {w \in Workers : Active(w) /\ job[w] = u}

Owner(u) == IF WorkingOn(u) = {} THEN NoUpdate ELSE CHOOSE w \in WorkingOn(u) : TRUE

Done == {u \in Updates : status[u] = "done"}

Ownership == INSTANCE UpdateOwnership WITH
    Nobody <- NoUpdate,
    owner <- [u \in Updates |-> Owner(u)],
    settled <- Done,
    Needs <- {u \in Updates : NeedsAnswer(u)},
    answered <- answered

\* With a lease that is long enough the receipts implement the abstract
\* ownership of updates.
ImplementsOwnership == Ownership!Spec
=============================================================================
