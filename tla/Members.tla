------------------------------- MODULE Members -------------------------------
(***************************************************************************)
(* Members of the group and their profiles (internal/admin/admin.go and    *)
(* internal/telegram/telegram.go): who is active, the refresh of a profile *)
(* that every message starts in the background, the one of /context, and   *)
(* the daily job over photos and texts.                                    *)
(*                                                                         *)
(* SQLite is opened with one connection (internal/db/db.go): an open       *)
(* cursor holds it, and whoever needs it waits.  A profile is what it was  *)
(* made of: so many of the member's messages, or photos.  Statements do    *)
(* not fail here; downloads and the model do.                              *)
(***************************************************************************)
EXTENDS Integers, FiniteSets, FiniteSetsExt

CONSTANTS
    Users,
    Leavers,          \* bound: the members who may leave, and join again
    Admins,           \* who may write to the bot in private: the administrator
    Photos, OwnerOf,  \* the photos that may be sent, and by whom
    PhotoLimit,       \* photos of one member that are described in a day (3)
    Day,              \* 24 hours in units of time
    MaxMessages,      \* bound: text messages and commands
    MaxTime,          \* bound: time
    MaxCrashes        \* bound: times the process dies

Never == -1
Free == -1             \* the connection
Daily == 0             \* the refreshes: of the daily job,
Background(n) == n     \* of the nth message,
Foreground(n) == MaxMessages + n  \* and of /context, if it is the nth message
Refreshes == 0 .. 2 * MaxMessages
Idle == [step |-> "idle", user |-> CHOOSE u \in Users : TRUE, read |-> 0]
NoProfile == [texts |-> 0, photos |-> {}]

ASSUME MembersAssumption ==
    /\ Users # {} /\ Leavers \cup Admins \subseteq Users /\ OwnerOf \in [Photos -> Users]
    /\ PhotoLimit \in Nat /\ Day \in Nat \ {0}
    /\ MaxMessages \in Nat /\ MaxTime \in Nat /\ MaxCrashes \in Nat

VARIABLES
    present,   \* who is in the group (Telegram)
    active,    \* group_members.active
    received,  \* how many messages with a text have come
    texts,     \* how many of them, without the commands, are stored of each
    due,       \* history: how many were, with each one's last text in the group
    sent,      \* the photos that are stored
    marked,    \* image_context_entries
    profile,   \* user_contexts.summary
    connection,
    refresh,   \* the refreshes that are under way
    dailyStep, \* where the daily job stands
    queue,     \* what it has still to do: photos, then users
    batch,     \* the photos whose note is saved next, or has been
    noted,     \* those of them that the note is made of
    refreshedAt,  \* profile_refresh_state
    nextTick,  \* the ticker of the daily job
    now,
    claimedAt, \* history: when the daily job was claimed last
    saved,     \* history: the photos of batches with a saved note
    excused,   \* history: users one of whose refreshes failed or was overtaken
    crashes

memberVars == <<present, active>>
storeVars == <<received, texts, due, sent, marked>>
jobVars == <<dailyStep, queue, batch, noted, nextTick>>
clockVars == <<refreshedAt, now, claimedAt>>
vars == <<memberVars, storeVars, profile, connection, refresh, jobVars, clockVars,
          saved, excused, crashes>>

Init ==
    /\ present = [u \in Users |-> TRUE] /\ active = [u \in Users |-> TRUE]
    /\ received = 0 /\ texts = [u \in Users |-> 0] /\ due = texts /\ sent = {}
    /\ marked = {} /\ profile = [u \in Users |-> NoProfile]
    /\ connection = Free /\ refresh = [r \in Refreshes |-> Idle]
    /\ dailyStep = "claim" /\ queue = {} /\ batch = {} /\ noted = {}
    /\ refreshedAt = Never /\ nextTick = Never /\ now = 0
    /\ claimedAt = Never /\ saved = {} /\ excused = {} /\ crashes = 0

Begun(u) == [step |-> "query", user |-> u, read |-> 0]

-----------------------------------------------------------------------------
(* Updates.                                                                *)

\* EnsureMember: who is seen is active.
Seen(u) == active' = [active EXCEPT ![u] = TRUE]

\* Faulty variant of Message: what is there is read before the message is stored.
MessageAfter(u) ==
    /\ connection = Free /\ present[u] /\ received < MaxMessages
    /\ Seen(u)
    /\ received' = received + 1
    /\ texts' = [texts EXCEPT ![u] = @ + 1] /\ due' = [due EXCEPT ![u] = texts'[u]]
    /\ refresh' = [refresh EXCEPT ![Background(received')] =
                      [step |-> "asking", user |-> u, read |-> texts[u]]]
    /\ UNCHANGED <<present, sent, marked, profile, connection, jobVars, clockVars,
                   saved, excused, crashes>>

\* A text message in the group is stored, and then the refresh of its sender's
\* profile is started in the background.
Message(u) ==
    /\ connection = Free /\ present[u] /\ received < MaxMessages
    /\ Seen(u)
    /\ received' = received + 1
    /\ texts' = [texts EXCEPT ![u] = @ + 1] /\ due' = [due EXCEPT ![u] = texts'[u]]
    /\ refresh' = [refresh EXCEPT ![Background(received')] = Begun(u)]
    /\ UNCHANGED <<present, sent, marked, profile, connection, jobVars, clockVars,
                   saved, excused, crashes>>

\* /context in the group does so like any message; the text of a command is not
\* read for a profile.  It also refreshes the profile itself, before it shows it.
ContextReply(u) ==
    /\ connection = Free /\ present[u] /\ received < MaxMessages
    /\ Seen(u)
    /\ received' = received + 1
    /\ refresh' = [refresh EXCEPT ![Background(received')] = Begun(u),
                                  ![Foreground(received')] = Begun(u)]
    /\ due' = [due EXCEPT ![u] = texts[u]]
    /\ UNCHANGED <<present, texts, sent, marked, profile, connection, jobVars, clockVars,
                   saved, excused, crashes>>

\* The administrator's private messages are stored with the group's, and are
\* read for his profile, but start no refresh in the background.  He need not be
\* in the group, and becomes active.
PrivateMessage(u) ==
    /\ connection = Free /\ u \in Admins /\ received < MaxMessages
    /\ Seen(u)
    /\ received' = received + 1
    /\ texts' = [texts EXCEPT ![u] = @ + 1]
    /\ UNCHANGED <<present, due, sent, marked, profile, connection, refresh, jobVars,
                   clockVars, saved, excused, crashes>>

\* /context in private.
PrivateContext(u) ==
    /\ connection = Free /\ u \in Admins /\ received < MaxMessages
    /\ Seen(u)
    /\ received' = received + 1
    /\ refresh' = [refresh EXCEPT ![Foreground(received')] = Begun(u)]
    /\ UNCHANGED <<present, texts, due, sent, marked, profile, connection, jobVars,
                   clockVars, saved, excused, crashes>>

Photo(p) ==
    LET u == OwnerOf[p] IN
    /\ connection = Free /\ present[u] /\ p \notin sent
    /\ Seen(u)
    /\ sent' = sent \cup {p}
    /\ UNCHANGED <<present, received, texts, due, marked, profile, connection, refresh,
                   jobVars, clockVars, saved, excused, crashes>>

\* u leaves, or by removes him: MarkMemberInactive for u, then EnsureMember for
\* the sender of the service message.
Leave(u, by) ==
    /\ connection = Free /\ present[u] /\ present[by] /\ u \in Leavers
    /\ present' = [present EXCEPT ![u] = FALSE]
    /\ active' = [active EXCEPT ![u] = FALSE, ![by] = TRUE]
    /\ UNCHANGED <<storeVars, profile, connection, refresh, jobVars, clockVars,
                   saved, excused, crashes>>

\* u joins, or is added.
Join(u, by) ==
    /\ connection = Free /\ ~present[u] /\ (present[by] \/ by = u)
    /\ present' = [present EXCEPT ![u] = TRUE]
    /\ active' = [active EXCEPT ![u] = TRUE, ![by] = TRUE]
    /\ UNCHANGED <<storeVars, profile, connection, refresh, jobVars, clockVars,
                   saved, excused, crashes>>

-----------------------------------------------------------------------------
(* refreshUserContext.                                                     *)

Step(r, s) == refresh' = [refresh EXCEPT ![r].step = s]
Ends(r) == refresh' = [refresh EXCEPT ![r] = Idle]
Others == <<memberVars, storeVars, jobVars, clockVars, saved, crashes>>

\* The messages are read, newest first.
Query(r) ==
    /\ refresh[r].step = "query" /\ connection = Free
    /\ connection' = r
    /\ refresh' = [refresh EXCEPT ![r].step = "reading", ![r].read = texts[refresh[r].user]]
    /\ UNCHANGED <<profile, excused, Others>>

\* Faulty variant of CloseCursor: the cursor is closed when the refresh ends.
CloseCursorLate(r) ==
    /\ refresh[r].step = "reading"
    /\ IF refresh[r].read = 0 THEN Ends(r) /\ connection' = Free
       ELSE Step(r, "asking") /\ UNCHANGED connection
    /\ UNCHANGED <<profile, excused, Others>>

\* After 4000 bytes, or the last message, the cursor is closed; a member
\* without messages has no profile.
CloseCursor(r) ==
    /\ refresh[r].step = "reading"
    /\ connection' = Free
    /\ IF refresh[r].read = 0 THEN Ends(r) ELSE Step(r, "asking")
    /\ UNCHANGED <<profile, excused, Others>>

ModelAnswers(r) ==
    /\ refresh[r].step = "asking"
    /\ Step(r, "saving")
    /\ UNCHANGED <<profile, connection, excused, Others>>

\* The model fails, or the two minutes of a background refresh are over; these
\* end also its waiting for the connection.
Fails(r) ==
    /\ \/ refresh[r].step = "asking"
       \/ r \in 1 .. MaxMessages /\ refresh[r].step # "idle"
    /\ Ends(r)
    /\ connection' = IF connection = r THEN Free ELSE connection
    /\ excused' = excused \cup {refresh[r].user}
    /\ UNCHANGED <<profile, Others>>

Save(r) ==
    LET u == refresh[r].user
        made == [texts |-> refresh[r].read, photos |-> {}]
    IN
    /\ refresh[r].step = "saving" /\ connection = Free
    /\ profile' = [profile EXCEPT ![u] = made]
    /\ excused' = IF refresh[r].read >= due[u] THEN excused \ {u} ELSE
                  IF refresh[r].read < profile[u].texts THEN excused \cup {u} ELSE excused
    /\ Ends(r)
    /\ UNCHANGED <<connection, Others>>

-----------------------------------------------------------------------------
(* dailyImageContext.                                                      *)

\* The row is older than 24 hours; at 24 hours it is a matter of moments.
Due == refreshedAt = Never \/ refreshedAt < now - Day
MaybeDue == refreshedAt = now - Day

\* The daily job has done its run and waits; its ticker starts after the first.
Sleep ==
    /\ dailyStep' = "sleeping"
    /\ nextTick' = IF nextTick = Never THEN now + Day ELSE nextTick

\* Faulty variant of Claim: a claim that is not granted moves the row.
ClaimMoves ==
    /\ dailyStep = "claim" /\ connection = Free
    /\ refreshedAt' = now
    /\ IF Due THEN claimedAt' = now /\ dailyStep' = "load photos" /\ UNCHANGED nextTick
       ELSE UNCHANGED claimedAt /\ Sleep
    /\ UNCHANGED <<memberVars, storeVars, profile, connection, refresh, queue, batch,
                   noted, now, saved, excused, crashes>>

\* claimProfileRefresh.
Claim ==
    /\ dailyStep = "claim" /\ connection = Free
    /\ \/ /\ Due \/ MaybeDue
          /\ refreshedAt' = now /\ claimedAt' = now
          /\ dailyStep' = "load photos"
          /\ UNCHANGED nextTick
       \/ /\ ~Due
          /\ UNCHANGED <<refreshedAt, claimedAt>>
          /\ Sleep
    /\ UNCHANGED <<memberVars, storeVars, profile, connection, refresh, queue, batch,
                   noted, now, saved, excused, crashes>>

\* enrichImages: the photos without a mark; those that are older than 48 hours
\* may be left out.
LoadPhotos ==
    /\ dailyStep = "load photos" /\ connection = Free
    /\ queue' \in SUBSET (sent \ marked)
    /\ dailyStep' = "photos"
    /\ UNCHANGED <<memberVars, storeVars, profile, connection, refresh, batch, noted,
                   nextTick, clockVars, saved, excused, crashes>>

\* One member's photos are described, which may fail for some; a member with
\* too many is left out.
Describe(u) ==
    LET own == {p \in queue : OwnerOf[p] = u} IN
    /\ dailyStep = "photos" /\ own # {}
    /\ queue' = queue \ own
    /\ \/ UNCHANGED <<dailyStep, batch, noted>>
       \/ /\ Cardinality(own) <= PhotoLimit
          /\ \E S \in SUBSET own \ {{}} : noted' = S
          /\ batch' = own
          /\ dailyStep' = "save note"
    /\ UNCHANGED <<memberVars, storeVars, profile, connection, refresh, nextTick,
                   clockVars, saved, excused, crashes>>

\* Faulty variant of SaveNote: the photos are marked in its place.
MarkFirst ==
    /\ dailyStep = "save note" /\ connection = Free
    /\ dailyStep' = "mark"
    /\ UNCHANGED <<memberVars, storeVars, profile, connection, refresh, queue, batch,
                   noted, nextTick, clockVars, saved, excused, crashes>>

\* The note replaces the profile.
SaveNote ==
    LET u == OwnerOf[CHOOSE p \in batch : TRUE] IN
    /\ dailyStep = "save note" /\ connection = Free
    /\ profile' = [profile EXCEPT ![u] = [texts |-> 0, photos |-> noted]]
    /\ saved' = saved \cup batch /\ noted' = {}
    /\ excused' = excused \cup {u}
    /\ dailyStep' = "mark"
    /\ UNCHANGED <<memberVars, storeVars, connection, refresh, queue, batch, nextTick,
                   clockVars, crashes>>

\* All photos of the batch are marked, also those that were not described.
Mark ==
    /\ dailyStep = "mark" /\ connection = Free
    /\ \E p \in batch : marked' = marked \cup {p} /\ batch' = batch \ {p}
    /\ dailyStep' = IF batch' = {} THEN "photos" ELSE "mark"
    /\ UNCHANGED <<memberVars, received, texts, due, sent, profile, connection, refresh,
                   queue, noted, nextTick, clockVars, saved, excused, crashes>>

\* enrichMessages: the active members with texts.  One who has sent commands only
\* is left out here, for whom the code starts a refresh that reads nothing.
LoadTexts ==
    /\ dailyStep = "photos" /\ queue = {} /\ connection = Free
    /\ queue' = {u \in Users : active[u] /\ texts[u] > 0}
    /\ dailyStep' = "texts"
    /\ UNCHANGED <<memberVars, storeVars, profile, connection, refresh, batch, noted,
                   nextTick, clockVars, saved, excused, crashes>>

RefreshOne(u) ==
    /\ dailyStep = "texts" /\ refresh[Daily].step = "idle" /\ u \in queue
    /\ queue' = queue \ {u}
    /\ refresh' = [refresh EXCEPT ![Daily] = Begun(u)]
    /\ UNCHANGED <<memberVars, storeVars, profile, connection, dailyStep, batch, noted,
                   nextTick, clockVars, saved, excused, crashes>>

Done ==
    /\ dailyStep = "texts" /\ refresh[Daily].step = "idle" /\ queue = {}
    /\ Sleep
    /\ UNCHANGED <<memberVars, storeVars, profile, connection, refresh, queue, batch,
                   noted, clockVars, saved, excused, crashes>>

\* The ticker.
Wake ==
    /\ dailyStep = "sleeping" /\ now >= nextTick
    /\ dailyStep' = "claim" /\ nextTick' = nextTick + Day
    /\ UNCHANGED <<memberVars, storeVars, profile, connection, refresh, queue, batch,
                   noted, clockVars, saved, excused, crashes>>

-----------------------------------------------------------------------------

Busy == \E r \in Refreshes : refresh[r].step # "idle"

\* Time passes, a day at a time: what is under way takes minutes.
Tick ==
    /\ now < MaxTime
    /\ dailyStep = "sleeping" /\ now < nextTick
    /\ ~Busy
    /\ now' = now + 1
    /\ UNCHANGED <<memberVars, storeVars, profile, connection, refresh, jobVars,
                   refreshedAt, claimedAt, saved, excused, crashes>>

\* The process dies and is started again.
Crash ==
    /\ crashes < MaxCrashes
    /\ crashes' = crashes + 1
    /\ connection' = Free /\ refresh' = [r \in Refreshes |-> Idle]
    /\ dailyStep' = "claim" /\ queue' = {} /\ batch' = {} /\ noted' = {}
    /\ nextTick' = Never
    /\ excused' = excused \cup {refresh[r].user : r \in {s \in Refreshes : refresh[s].step # "idle"}}
    /\ UNCHANGED <<memberVars, storeVars, profile, clockVars, saved>>

Updates ==
    \/ \E u \in Users : \/ Message(u) \/ ContextReply(u)
                        \/ PrivateMessage(u) \/ PrivateContext(u)
    \/ \E p \in Photos : Photo(p)
    \/ \E u, by \in Users : Leave(u, by) \/ Join(u, by)

Refreshing(r) ==
    Query(r) \/ CloseCursor(r) \/ ModelAnswers(r) \/ Fails(r) \/ Save(r)

DailyJob ==
    \/ Claim \/ LoadPhotos \/ SaveNote \/ Mark \/ LoadTexts \/ Done \/ Wake
    \/ \E u \in Users : Describe(u) \/ RefreshOne(u)

Next == Updates \/ (\E r \in Refreshes : Refreshing(r)) \/ DailyJob \/ Tick \/ Crash

Spec == Init /\ [][Next]_vars

-----------------------------------------------------------------------------
(* Properties.                                                             *)

TypeOK ==
    /\ present \in [Users -> BOOLEAN] /\ active \in [Users -> BOOLEAN]
    /\ received \in 0 .. MaxMessages
    /\ texts \in [Users -> 0 .. received] /\ due \in [Users -> 0 .. received]
    /\ sent \subseteq Photos
    /\ marked \subseteq sent
    /\ profile \in [Users -> [texts : 0 .. MaxMessages, photos : SUBSET Photos]]
    /\ connection \in Refreshes \cup {Free}
    /\ \A r \in Refreshes :
          /\ refresh[r].step \in {"idle", "query", "reading", "asking", "saving"}
          /\ refresh[r].step = "reading" => connection = r
          /\ refresh[r].read <= texts[refresh[r].user]
    /\ refresh[Daily].step # "idle" => dailyStep = "texts"
    /\ dailyStep \in {"claim", "load photos", "photos", "save note", "mark", "texts", "sleeping"}
    /\ batch # {} <=> dailyStep \in {"save note", "mark"}
    /\ now \in 0 .. MaxTime /\ {refreshedAt, claimedAt} \subseteq Never .. now

\* The guards of the steps with which a refresh goes on, without its failures and
\* its timeout, and of those of the daily job when it does not sleep.
CanGoOn(r) ==
    \/ refresh[r].step \in {"reading", "asking"}
    \/ refresh[r].step \in {"query", "saving"} /\ connection = Free
JobCanGoOn ==
    \/ /\ connection = Free
       /\ \/ dailyStep \in {"claim", "load photos", "save note"}
          \/ dailyStep = "mark" /\ batch # {}
          \/ dailyStep = "photos" /\ queue = {}
    \/ dailyStep = "photos" /\ \E p \in queue, u \in Users : OwnerOf[p] = u
    \/ dailyStep = "texts" /\ refresh[Daily].step = "idle" /\ (queue = {} \/ queue \cap Users # {})

\* telegram.go, refreshUserContext: "Release the cursor before the slow model
\* call and before writing the generated profile, otherwise a partial iteration
\* can deadlock this goroutine".  Who has the connection never waits for it, and
\* while refreshes or the daily job are at work, one of them can go on.
NeverStuck ==
    /\ connection # Free => CanGoOn(connection)
    /\ Busy => \E r \in Refreshes : CanGoOn(r)
    /\ dailyStep # "sleeping" => Busy \/ JobCanGoOn

\* telegram.go, claimProfileRefresh: "restarts cannot cause extra model calls
\* or profile rewrites within the same 24-hour window".  A claim is not granted
\* again within a day, by no restart and no early tick; and one that is refused
\* is followed by the next before the last granted one is two days old.  What is
\* bounded is the claims, not the work: they come first, so that a crash loses
\* the rest of a day's work, and an early tick may skip a day (EveryDay).
DailyRuns ==
    [][/\ dailyStep = "claim" /\ dailyStep' = "load photos"
            => claimedAt = Never \/ now - claimedAt >= Day
       /\ dailyStep = "claim" /\ dailyStep' = "sleeping"
            => nextTick' - claimedAt <= 2 * Day]_vars

\* A photo is not marked as used before a note from its batch is in a profile,
\* so that a crash or a failure leaves it for the next day.
MarkedAfterNote == marked \subseteq saved

MembersInv == TypeOK /\ MarkedAfterNote

\* refreshUserContext runs after each new message of the group.  When no refresh
\* of a member is under way, his profile is made of all his texts up to the last
\* with which he came in the group, unless the last refresh failed, was overtaken
\* by an older one, or a note on photos came after.  What the administrator wrote
\* in private since then waits for the next refresh.
ProfileIsCurrent ==
    \A u \in Users :
        \/ u \in excused
        \/ \E r \in Refreshes : refresh[r].step # "idle" /\ refresh[r].user = u
        \/ profile[u].texts >= due[u]

\* The comment of ProfileIsCurrent's code without the exception for refreshes
\* that overtake one another: "builds a factual profile from every retained
\* group message by one participant.  It runs after each new message".
NeverOlder ==
    [][\A u \in Users : profile'[u].texts < profile[u].texts => profile'[u].photos # {}]_vars

\* The comment of refreshUserContext without the administrator's exception: it
\* "builds a factual profile from every retained group message by one
\* participant.  It runs after each new message".
PrivateIsCurrent ==
    \A u \in Users :
        \/ u \in excused
        \/ \E r \in Refreshes : refresh[r].step # "idle" /\ refresh[r].user = u
        \/ profile[u].texts = texts[u]

\* admin.go, MarkMemberInactive: "keeps a departed participant out of
\* group-wide mentions".
LeaverInactive == \A u \in Users : active[u] => present[u]

\* telegram.go, enrichMessages: "It runs once a day".
EveryDay == dailyStep = "sleeping" => nextTick - claimedAt <= Day
=============================================================================
