---------------------------- MODULE Announcements ----------------------------
(***************************************************************************)
(* The two queues of changes that wait to be announced                     *)
(* (internal/telegram): /sync publishes the group's queue in the group,    *)
(* part by part, and the watcher of Hermes' changes sends the              *)
(* administrator a private digest every 15 seconds.  Both read, send and   *)
(* only then delete, and the database, Telegram and the process may fail   *)
(* between any two of these.                                               *)
(*                                                                         *)
(* Changes are numbered in the order of the log (Schedule!Logged puts each *)
(* in one queue).  Several /sync commands may run at once: handlers are    *)
(* concurrent, and a process-local mutex is all that orders them.          *)
(***************************************************************************)
EXTENDS Integers, FiniteSets, FiniteSetsExt

CONSTANTS
    Syncers,      \* handlers that run /sync
    NoSyncer,     \* the mutex is free
    MaxChanges,   \* bound: changes that are logged
    MaxCrashes,   \* bound: times the process dies
    Size,         \* the size of each change's line in a digest
    PartLimit,    \* the size of a part of the group's digest (3800)
    MessageLimit, \* the longest message that Telegram takes (4096)
    DigestSize    \* changes in one digest of the administrator (20)

Changes == 1 .. MaxChanges

ASSUME AnnouncementsAssumption ==
    /\ NoSyncer \notin Syncers
    /\ MaxChanges \in Nat /\ MaxCrashes \in Nat
    /\ DigestSize \in Nat \ {0}
    /\ PartLimit \in Nat /\ MessageLimit \in Nat /\ PartLimit <= MessageLimit
    /\ \A n \in Changes : Size[n] \in 1 .. PartLimit

VARIABLES
    logged,       \* how many changes there are
    groupQueue,   \* group_announcement_changes
    adminQueue,   \* admin_schedule_notifications
    mutex,        \* groupSyncMu
    pc,           \* where each /sync stands
    captured,     \* the changes each /sync has read
    rest,         \* those of them that it has not sent yet
    watcherPc,    \* where the watcher's flush stands
    digest,       \* the changes the flush has read
    crashes,
    published,    \* history: how often the group was shown each change, up to 2
    told,         \* history: the changes the administrator was shown
    troubled      \* history: whether anything has failed

queueVars == <<logged, groupQueue, adminQueue>>
syncVars == <<mutex, pc, captured, rest>>
watcherVars == <<watcherPc, digest>>
historyVars == <<published, told, troubled>>
vars == <<queueVars, syncVars, watcherVars, crashes, historyVars>>

\* What a call of deliver comes to: how often Telegram shows the message, and
\* whether the caller is told that it does.  The call posts with markup and,
\* if that reports an error, once more without; an error may be reported of a
\* message that was accepted.
Deliveries == {<<1, TRUE>>, <<2, TRUE>>, <<0, FALSE>>, <<1, FALSE>>, <<2, FALSE>>}
Normal == <<1, TRUE>>

Init ==
    /\ logged = 0 /\ groupQueue = {} /\ adminQueue = {}
    /\ mutex = NoSyncer
    /\ pc = [s \in Syncers |-> "idle"]
    /\ captured = [s \in Syncers |-> {}]
    /\ rest = [s \in Syncers |-> {}]
    /\ watcherPc = "waiting" /\ digest = {}
    /\ crashes = 0
    /\ published = [n \in Changes |-> 0] /\ told = {} /\ troubled = FALSE

-----------------------------------------------------------------------------
(* What is computed from the changes that were read.                       *)

\* The n oldest of S.
Oldest(n, S) == {c \in S : Cardinality({d \in S : d < c}) < n}

TotalSize(S) == MapThenSumSet(LAMBDA n : Size[n], S)

Prefixes(S) == {{c \in S : c <= n} : n \in S}

\* Faulty variant of NextPart: the digest is not read in order.
LastPart(S) ==
    LET suffixes == {P \in {{c \in S : c >= n} : n \in S} : TotalSize(P) <= PartLimit}
    IN  CHOOSE P \in suffixes : \A Q \in suffixes : Q \subseteq P

\* telegramParts cuts at the last end of a line that fits; the text without
\* the part is cut next.
NextPart(S) ==
    LET fitting == {P \in Prefixes(S) : TotalSize(P) <= PartLimit}
    IN  CHOOSE P \in fitting : \A Q \in fitting : Q \subseteq P

-----------------------------------------------------------------------------
(* The store's side.                                                       *)

LogChange ==
    /\ logged < MaxChanges
    /\ logged' = logged + 1
    /\ \/ groupQueue' = groupQueue \cup {logged + 1} /\ UNCHANGED adminQueue
       \/ adminQueue' = adminQueue \cup {logged + 1} /\ UNCHANGED groupQueue
    /\ UNCHANGED <<syncVars, watcherVars, crashes, historyVars>>

-----------------------------------------------------------------------------
(* /sync and /sync preview.                                                *)

\* The handler returns, which unlocks the mutex.
Return(s) ==
    /\ mutex' = NoSyncer
    /\ pc' = [pc EXCEPT ![s] = "idle"]
    /\ captured' = [captured EXCEPT ![s] = {}]
    /\ rest' = [rest EXCEPT ![s] = {}]

\* Faulty variant of Start: there is no mutex.
StartUnlocked(s, preview) ==
    /\ pc[s] = "idle"
    /\ groupQueue # {}
    /\ pc' = [pc EXCEPT ![s] = IF preview THEN "previewing" ELSE "publishing"]
    /\ captured' = [captured EXCEPT ![s] = groupQueue]
    /\ rest' = [rest EXCEPT ![s] = groupQueue]
    /\ UNCHANGED <<mutex, queueVars, watcherVars, crashes, historyVars>>

\* With the mutex, the queue is read.  An empty queue, or one that cannot be
\* read, ends the command with a private answer.
Start(s, preview) ==
    /\ pc[s] = "idle" /\ mutex = NoSyncer
    /\ groupQueue # {}
    /\ mutex' = s
    /\ pc' = [pc EXCEPT ![s] = IF preview THEN "previewing" ELSE "publishing"]
    /\ captured' = [captured EXCEPT ![s] = groupQueue]
    /\ rest' = [rest EXCEPT ![s] = groupQueue]
    /\ UNCHANGED <<queueVars, watcherVars, crashes, historyVars>>

\* The administrator is shown the digest in private, if Telegram takes it.
Preview(s) ==
    /\ pc[s] = "previewing"
    /\ Return(s)
    /\ UNCHANGED <<queueVars, watcherVars, crashes, historyVars>>

\* The next part is sent to the group; an error leaves the whole queue.
PublishPart(s, delivery) ==
    LET part == NextPart(rest[s])
        copies == delivery[1]
    IN
    /\ pc[s] = "publishing"
    /\ published' = [n \in Changes |->
          IF n \in part THEN Min({2, published[n] + copies}) ELSE published[n]]
    /\ troubled' = (troubled \/ delivery # Normal)
    /\ \/ /\ delivery[2]
          /\ rest' = [rest EXCEPT ![s] = @ \ part]
          /\ pc' = [pc EXCEPT ![s] = IF rest'[s] = {} THEN "acknowledging" ELSE @]
          /\ UNCHANGED <<mutex, captured>>
       \/ ~delivery[2] /\ Return(s)
    /\ UNCHANGED <<queueVars, watcherVars, crashes, told>>

\* Faulty variant of Acknowledge: the whole queue is deleted.
AcknowledgeAll(s, succeeds) ==
    /\ pc[s] = "acknowledging"
    /\ groupQueue' = IF succeeds THEN {} ELSE groupQueue
    /\ troubled' = (troubled \/ ~succeeds)
    /\ Return(s)
    /\ UNCHANGED <<logged, adminQueue, watcherVars, crashes, published, told>>

\* The changes that were read leave the queue.
Acknowledge(s, succeeds) ==
    /\ pc[s] = "acknowledging"
    /\ groupQueue' = IF succeeds THEN groupQueue \ captured[s] ELSE groupQueue
    /\ troubled' = (troubled \/ ~succeeds)
    /\ Return(s)
    /\ UNCHANGED <<logged, adminQueue, watcherVars, crashes, published, told>>

-----------------------------------------------------------------------------
(* The administrator's digest.                                             *)

\* A flush reads the oldest changes.
WatcherReads ==
    /\ watcherPc = "waiting" /\ adminQueue # {}
    /\ digest' = Oldest(DigestSize, adminQueue)
    /\ watcherPc' = "telling"
    /\ UNCHANGED <<queueVars, syncVars, crashes, historyVars>>

\* Faulty variant of WatcherTells: after an error the watcher is done.
WatcherGivesUp(delivery) ==
    /\ watcherPc = "telling"
    /\ TotalSize(digest) > MessageLimit => delivery = <<0, FALSE>>
    /\ told' = IF delivery[1] > 0 THEN told \cup digest ELSE told
    /\ watcherPc' = IF delivery[2] THEN "acknowledging" ELSE "stopped"
    /\ digest' = IF delivery[2] THEN digest ELSE {}
    /\ troubled' = (troubled \/ delivery # Normal)
    /\ UNCHANGED <<queueVars, syncVars, crashes, published>>

\* It sends them in one message, which is not split; an error ends the flush.
WatcherTells(delivery) ==
    /\ watcherPc = "telling"
    /\ TotalSize(digest) > MessageLimit => delivery = <<0, FALSE>>
    /\ told' = IF delivery[1] > 0 THEN told \cup digest ELSE told
    /\ watcherPc' = IF delivery[2] THEN "acknowledging" ELSE "waiting"
    /\ digest' = IF delivery[2] THEN digest ELSE {}
    /\ troubled' = (troubled \/ delivery # Normal)
    /\ UNCHANGED <<queueVars, syncVars, crashes, published>>

WatcherAcknowledges(succeeds) ==
    /\ watcherPc = "acknowledging"
    /\ adminQueue' = IF succeeds THEN adminQueue \ digest ELSE adminQueue
    /\ watcherPc' = "waiting" /\ digest' = {}
    /\ troubled' = (troubled \/ ~succeeds)
    /\ UNCHANGED <<logged, groupQueue, syncVars, crashes, published, told>>

-----------------------------------------------------------------------------

\* The process dies and is started again: what it had read is forgotten.
Crash ==
    /\ crashes < MaxCrashes
    /\ crashes' = crashes + 1
    /\ mutex' = NoSyncer
    /\ pc' = [s \in Syncers |-> "idle"]
    /\ captured' = [s \in Syncers |-> {}]
    /\ rest' = [s \in Syncers |-> {}]
    /\ watcherPc' = "waiting" /\ digest' = {}
    /\ troubled' = TRUE
    /\ UNCHANGED <<queueVars, published, told>>

SyncStep(s) ==
    \/ \E preview \in BOOLEAN : Start(s, preview)
    \/ Preview(s)
    \/ \E delivery \in Deliveries : PublishPart(s, delivery)
    \/ \E succeeds \in BOOLEAN : Acknowledge(s, succeeds)

WatcherStep ==
    \/ WatcherReads
    \/ \E delivery \in Deliveries : WatcherTells(delivery)
    \/ \E succeeds \in BOOLEAN : WatcherAcknowledges(succeeds)

Next ==
    \/ LogChange
    \/ \E s \in Syncers : SyncStep(s)
    \/ WatcherStep
    \/ Crash

Spec == Init /\ [][Next]_vars

\* The watcher's ticker goes on for ever, and neither Telegram nor the
\* database refuses for ever what it can take.  /sync is up to the
\* administrator: nothing makes it happen.
Fairness ==
    /\ WF_vars(WatcherStep)
    /\ SF_vars(WatcherTells(Normal))
    /\ SF_vars(WatcherAcknowledges(TRUE))

FairSpec == Spec /\ Fairness

-----------------------------------------------------------------------------
(* Properties.                                                             *)

\* The type of every variable; a /sync that runs holds the mutex.
TypeOK ==
    /\ logged \in 0 .. MaxChanges
    /\ groupQueue \subseteq 1 .. logged /\ adminQueue \subseteq 1 .. logged
    /\ groupQueue \cap adminQueue = {}
    /\ mutex \in Syncers \cup {NoSyncer}
    /\ pc \in [Syncers -> {"idle", "previewing", "publishing", "acknowledging"}]
    /\ captured \in [Syncers -> SUBSET (1 .. logged)]
    /\ rest \in [Syncers -> SUBSET (1 .. logged)]
    /\ \A s \in Syncers : pc[s] # "idle" <=> mutex = s
    /\ watcherPc \in {"waiting", "telling", "acknowledging"}
    /\ digest \subseteq 1 .. logged
    /\ crashes \in 0 .. MaxCrashes
    /\ published \in [Changes -> 0 .. 2]
    /\ told \subseteq 1 .. logged
    /\ troubled \in BOOLEAN

\* docs/architecture.md: the mutex "prevents concurrent sync calls from
\* normally duplicating a digest".  As long as nothing fails, no change is
\* published twice, however the /sync commands overlap.
NormallyOnce == ~troubled => \A n \in Changes : published[n] <= 1

\* docs/architecture.md: /sync "deletes the pending records only after
\* Telegram confirms delivery".  A change that leaves a queue was shown to
\* those it was queued for, also when it was queued while others were sent.
GoneOnlyIfShown ==
    [][/\ \A n \in groupQueue \ groupQueue' : published[n] > 0
       /\ \A n \in adminQueue \ adminQueue' : n \in told]_vars

\* Nobody is shown a change while an older one that is still queued for him
\* was never shown: after any failures the digests continue where they broke.
ShownInOrder ==
    /\ \A m \in groupQueue, n \in Changes :
          m < n /\ published[n] > 0 => published[m] > 0
    /\ \A m \in adminQueue, n \in told : m < n => m \in told

\* The state of the queues.
QueuesInv == TypeOK /\ ShownInOrder

\* docs/architecture.md: Hermes' changes are "queued for a private Telegram
\* notification to the configured Eleven administrator".  Each is taken from
\* the queue in the end.
AdministratorIsTold == \A n \in Changes : n \in adminQueue ~> n \notin adminQueue
=============================================================================
