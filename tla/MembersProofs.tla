---------------------------- MODULE MembersProofs ----------------------------
(***************************************************************************)
(* Theorems about the members and their profiles, for all sets of users    *)
(* and photos, any number of messages, days and crashes.                   *)
(***************************************************************************)
EXTENDS Members, SetLemmas

-----------------------------------------------------------------------------
(* The strengthening of the invariants.                                    *)

Steps == {"idle", "query", "reading", "asking", "saving"}
RefreshRecords == [step : Steps, user : Users, read : Nat]

\* The refreshes, and what they have read, belong to users; only the daily job
\* itself and the messages that have come have started one.
Started ==
    /\ refresh \in [Refreshes -> RefreshRecords]
    /\ \A n \in received + 1 .. MaxMessages :
          refresh[Background(n)].step = "idle" /\ refresh[Foreground(n)].step = "idle"

\* The photos the daily job is at have been sent; the ones it marks are in a
\* saved note.
Photographed ==
    /\ batch \subseteq sent /\ noted \subseteq batch
    /\ dailyStep = "mark" => batch \subseteq saved /\ noted = {}
    /\ dailyStep \in {"photos", "save note", "mark"} => queue \subseteq sent
    /\ dailyStep = "texts" => queue \subseteq Users
    /\ marked \subseteq saved

\* A granted claim is what the row says.  Outside of its sleep the job's next
\* tick is a day away, and in its sleep no farther.
Timed ==
    /\ refreshedAt = claimedAt
    /\ nextTick = Never \/ nextTick \in now .. now + Day
    /\ dailyStep = "sleeping" => nextTick # Never
    /\ dailyStep # "sleeping" => nextTick \in {Never, now + Day}

\* A refresh of u that has read, or will read, all his texts that are due.
ReadsAll(r, u) ==
    /\ refresh[r].step # "idle" /\ refresh[r].user = u
    /\ refresh[r].step = "query" \/ refresh[r].read >= due[u]

\* A profile that is not made of all texts that are due will be, unless it is excused.
Current ==
    \A u \in Users :
        /\ profile[u].texts <= texts[u] /\ due[u] <= texts[u]
        /\ \/ u \in excused
           \/ profile[u].texts >= due[u]
           \/ \E r \in Refreshes : ReadsAll(r, u)

IInv == TypeOK /\ Started /\ Photographed /\ Timed /\ Current

-----------------------------------------------------------------------------
(* What starts and ends.                                                   *)

\* What is started and what is over are refreshes of users.
LEMMA RecordsStartAndEnd ==
    /\ \A u \in Users : /\ Begun(u) \in RefreshRecords
                        /\ Begun(u).step = "query" /\ Begun(u).user = u /\ Begun(u).read = 0
    /\ Idle \in RefreshRecords
    /\ Idle.step = "idle" /\ Idle.read = 0
<1>1. (CHOOSE u \in Users : TRUE) \in Users
  <2>1. \E u \in Users : TRUE
    BY MembersAssumption
  <2>2. QED
    BY <2>1
<1>2. QED
  BY <1>1 DEF Begun, Idle, RefreshRecords, Steps

\* The places of the refreshes that a message starts.
LEMMA PlacesOfAMessage ==
    ASSUME NEW n \in 1 .. MaxMessages
    PROVE  /\ Background(n) \in Refreshes /\ Foreground(n) \in Refreshes
           /\ Background(n) # Daily /\ Foreground(n) # Daily
           /\ \A m \in 1 .. MaxMessages :
                 /\ Background(m) # Foreground(n)
                 /\ m # n => Background(m) # Background(n) /\ Foreground(m) # Foreground(n)
BY MembersAssumption DEF Background, Foreground, Refreshes, Daily

\* The types, in parts: what a refresh keeps to, and the rest.
RefreshOK ==
    \A r \in Refreshes :
        /\ refresh[r].step = "reading" => connection = r
        /\ refresh[r].read <= texts[refresh[r].user]

StoreOK ==
    /\ present \in [Users -> BOOLEAN] /\ active \in [Users -> BOOLEAN]
    /\ received \in 0 .. MaxMessages
    /\ texts \in [Users -> 0 .. received] /\ due \in [Users -> 0 .. received]
    /\ sent \subseteq Photos
    /\ marked \subseteq sent
    /\ profile \in [Users -> [texts : 0 .. MaxMessages, photos : SUBSET Photos]]
    /\ connection \in Refreshes \cup {Free}

JobOK ==
    /\ refresh[Daily].step # "idle" => dailyStep = "texts"
    /\ dailyStep \in {"claim", "load photos", "photos", "save note", "mark", "texts", "sleeping"}
    /\ batch # {} <=> dailyStep \in {"save note", "mark"}
    /\ now \in 0 .. MaxTime /\ {refreshedAt, claimedAt} \subseteq Never .. now

LEMMA TypeParts ==
    ASSUME refresh \in [Refreshes -> RefreshRecords]
    PROVE  TypeOK <=> RefreshOK /\ StoreOK /\ JobOK
<1>1. \A r \in Refreshes : refresh[r].step \in Steps
  BY DEF RefreshRecords
<1>2. QED
  BY <1>1 DEF TypeOK, RefreshOK, StoreOK, JobOK, Steps

LEMMA Parts ==
    ASSUME IInv
    PROVE  RefreshOK /\ StoreOK /\ JobOK
BY TypeParts DEF IInv, Started

LEMMA Numbers ==
    ASSUME IInv
    PROVE  /\ now \in Nat /\ Day \in Nat \ {0} /\ MaxTime \in Nat /\ now \in 0 .. MaxTime
           /\ MaxMessages \in Nat /\ received \in Nat /\ received <= MaxMessages
           /\ \A u \in Users : texts[u] \in Nat /\ texts[u] <= received
           /\ \A u \in Users : profile[u].texts \in Nat /\ due[u] \in Nat
           /\ refreshedAt \in Int /\ claimedAt \in Int
           /\ -1 <= refreshedAt /\ refreshedAt <= now /\ -1 <= claimedAt /\ claimedAt <= now
<1>1. now \in 0 .. MaxTime /\ {refreshedAt, claimedAt} \subseteq Never .. now
  BY Parts DEF JobOK
<1>2. /\ received \in 0 .. MaxMessages
      /\ texts \in [Users -> 0 .. received] /\ due \in [Users -> 0 .. received]
      /\ profile \in [Users -> [texts : 0 .. MaxMessages, photos : SUBSET Photos]]
  BY Parts DEF StoreOK
<1>3. now \in Nat /\ received \in Nat /\ received <= MaxMessages
  BY <1>1, <1>2, MembersAssumption
<1>4. \A u \in Users : texts[u] \in Nat /\ texts[u] <= received
  BY <1>2, <1>3
<1>5. \A u \in Users : profile[u].texts \in Nat /\ due[u] \in Nat
  BY <1>2, <1>3, MembersAssumption
<1>6. /\ refreshedAt \in Int /\ claimedAt \in Int
      /\ -1 <= refreshedAt /\ refreshedAt <= now /\ -1 <= claimedAt /\ claimedAt <= now
  BY <1>1, <1>3 DEF Never
<1>7. QED
  BY <1>1, <1>3, <1>4, <1>5, <1>6, MembersAssumption

-----------------------------------------------------------------------------
(* Steps that start and end no refresh.                                    *)

\* The job's parts hold in their primed form by what each step says; the rest
\* is the same for all of them.
LEMMA NoRefreshStep ==
    ASSUME IInv, UNCHANGED <<refresh, received, texts, due>>,
           StoreOK', JobOK', Photographed', Timed',
           UNCHANGED connection,
           \A u \in Users : \/ profile'[u].texts = profile[u].texts /\ (u \in excused => u \in excused')
                            \/ u \in excused' /\ profile'[u].texts <= texts[u]
    PROVE  IInv'
<1>1. Started'
  BY DEF IInv, Started
<1>2. RefreshOK'
  BY DEF IInv, TypeOK, RefreshOK
<1>3. TypeOK'
  <2>1. (refresh \in [Refreshes -> RefreshRecords])'
    BY <1>1 DEF Started
  <2>2. \A r \in Refreshes : refresh'[r].step \in Steps
    BY <2>1 DEF RefreshRecords
  <2>3. QED
    BY <1>2, <2>2 DEF TypeOK, RefreshOK, StoreOK, JobOK, Steps
<1>4. Current'
  BY DEF IInv, Current, ReadsAll
<1>5. QED
  BY <1>1, <1>3, <1>4 DEF IInv

\* The types of what the daily job does not write.
LEMMA SameStore ==
    ASSUME IInv, UNCHANGED <<memberVars, storeVars, profile, connection>>
    PROVE  StoreOK'
BY Parts DEF StoreOK, memberVars, storeVars

LEMMA PhotoKeeps ==
    ASSUME IInv, NEW p \in Photos, Photo(p)
    PROVE  IInv'
<1> DEFINE u == OwnerOf[p]
<1>1. u \in Users
  BY MembersAssumption
<1>2. /\ UNCHANGED <<present, received, texts, due, marked, profile, connection, refresh,
                     dailyStep, queue, batch, noted, nextTick, refreshedAt, now, claimedAt,
                     saved, excused, crashes>>
      /\ active' = [active EXCEPT ![u] = TRUE] /\ sent' = sent \cup {p}
  BY DEF Photo, Seen, jobVars, clockVars
<1>3. active' \in [Users -> BOOLEAN]
  BY <1>1, <1>2, Zenon DEF IInv, TypeOK
<1>4. StoreOK'
  BY Parts, <1>2, <1>3 DEF StoreOK
<1>5. JobOK'
  BY Parts, <1>2 DEF JobOK
<1>6. Photographed' /\ Timed'
  BY <1>2 DEF IInv, Photographed, Timed
<1>7. QED
  BY <1>2, <1>4, <1>5, <1>6, NoRefreshStep

LEMMA MembershipKeeps ==
    ASSUME IInv, NEW u \in Users, NEW by \in Users, Leave(u, by) \/ Join(u, by)
    PROVE  IInv'
<1>1. UNCHANGED <<received, texts, due, sent, marked, profile, connection, refresh,
                  dailyStep, queue, batch, noted, nextTick, refreshedAt, now, claimedAt,
                  saved, excused, crashes>>
  BY DEF Leave, Join, storeVars, jobVars, clockVars
<1>2. present' \in [Users -> BOOLEAN] /\ active' \in [Users -> BOOLEAN]
  <2>1. CASE Leave(u, by)
    BY <2>1, Zenon DEF IInv, TypeOK, Leave
  <2>2. CASE Join(u, by)
    BY <2>2, Zenon DEF IInv, TypeOK, Join
  <2>3. QED
    BY <2>1, <2>2
<1>3. StoreOK'
  BY Parts, <1>1, <1>2 DEF StoreOK
<1>4. JobOK'
  BY Parts, <1>1 DEF JobOK
<1>5. Photographed' /\ Timed'
  BY <1>1 DEF IInv, Photographed, Timed
<1>6. QED
  BY <1>1, <1>3, <1>4, <1>5, NoRefreshStep

LEMMA ClaimKeeps ==
    ASSUME IInv, Claim
    PROVE  IInv'
<1>1. /\ UNCHANGED <<present, active, received, texts, due, sent, marked, profile, connection, refresh,
                     queue, batch, noted, now, saved, excused, crashes>>
      /\ dailyStep = "claim"
      /\ \/ /\ refreshedAt' = now /\ claimedAt' = now
            /\ dailyStep' = "load photos" /\ UNCHANGED nextTick
         \/ /\ UNCHANGED <<refreshedAt, claimedAt>>
            /\ dailyStep' = "sleeping"
            /\ nextTick' = IF nextTick = Never THEN now + Day ELSE nextTick
  BY DEF Claim, Sleep, memberVars, storeVars
<1>2. now \in Nat /\ Day \in Nat /\ MaxTime \in Nat
  BY Numbers
<1>3. StoreOK'
  BY SameStore DEF Claim
<1>4. JobOK'
  <2>1. {refreshedAt', claimedAt'} \subseteq Never .. now'
    <3>1. now \in Never .. now /\ refreshedAt \in Never .. now /\ claimedAt \in Never .. now
      BY Numbers DEF Never
    <3>2. QED
      BY <1>1, <3>1
  <2>2. now' \in 0 .. MaxTime
    BY <1>1, Numbers
  <2>3. QED
    BY Parts, <1>1, <2>1, <2>2 DEF JobOK
<1>5. Photographed'
  BY <1>1 DEF IInv, Photographed
<1>6. Timed'
  <2>1. now + Day \in now .. now + Day /\ now + Day # Never
    BY <1>2 DEF Never
  <2>2. refreshedAt' = claimedAt'
    BY <1>1 DEF IInv, Timed
  <2>3. nextTick \in {Never, now + Day} /\ now' = now
    BY <1>1 DEF IInv, Timed
  <2>4. QED
    BY <1>1, <2>1, <2>2, <2>3 DEF Timed
<1>7. QED
  BY <1>1, <1>3, <1>4, <1>5, <1>6, NoRefreshStep

LEMMA LoadKeeps ==
    ASSUME IInv, LoadPhotos \/ LoadTexts
    PROVE  IInv'
<1>1. /\ UNCHANGED <<present, active, received, texts, due, sent, marked, profile, connection, refresh,
                     batch, noted, nextTick, refreshedAt, now, claimedAt, saved, excused>>
      /\ \/ dailyStep = "load photos" /\ dailyStep' = "photos" /\ queue' \subseteq sent
         \/ dailyStep = "photos" /\ dailyStep' = "texts" /\ queue' \subseteq Users
  BY DEF LoadPhotos, LoadTexts, memberVars, storeVars, clockVars
<1>2. StoreOK'
  BY SameStore DEF LoadPhotos, LoadTexts
<1>3. JobOK'
  BY Parts, <1>1 DEF JobOK
<1>4. Photographed' /\ Timed'
  BY <1>1 DEF IInv, Photographed, Timed
<1>5. QED
  BY <1>1, <1>2, <1>3, <1>4, NoRefreshStep

LEMMA DescribeKeeps ==
    ASSUME IInv, NEW u \in Users, Describe(u)
    PROVE  IInv'
<1> DEFINE own == {p \in queue : OwnerOf[p] = u}
<1>1. /\ UNCHANGED <<present, active, received, texts, due, sent, marked, profile, connection, refresh,
                     nextTick, refreshedAt, now, claimedAt, saved, excused>>
      /\ dailyStep = "photos" /\ own # {} /\ queue' = queue \ own
      /\ \/ UNCHANGED <<dailyStep, batch, noted>>
         \/ batch' = own /\ noted' \subseteq own /\ dailyStep' = "save note"
  BY DEF Describe, memberVars, storeVars, clockVars
<1>2. StoreOK'
  BY SameStore DEF Describe
<1>3. JobOK'
  BY Parts, <1>1 DEF JobOK
<1>4. Photographed' /\ Timed'
  BY <1>1 DEF IInv, Photographed, Timed
<1>5. QED
  BY <1>1, <1>2, <1>3, <1>4, NoRefreshStep

LEMMA SaveNoteKeeps ==
    ASSUME IInv, SaveNote
    PROVE  IInv'
<1> DEFINE u == OwnerOf[CHOOSE p \in batch : TRUE]
<1>1. /\ UNCHANGED <<present, active, received, texts, due, sent, marked, connection, refresh,
                     queue, batch, nextTick, refreshedAt, now, claimedAt>>
      /\ dailyStep = "save note" /\ dailyStep' = "mark"
      /\ profile' = [profile EXCEPT ![u] = [texts |-> 0, photos |-> noted]]
      /\ saved' = saved \cup batch /\ noted' = {} /\ excused' = excused \cup {u}
  BY DEF SaveNote, memberVars, storeVars, clockVars
<1>2. batch # {} /\ batch \subseteq Photos /\ noted \subseteq Photos
  BY <1>1 DEF IInv, TypeOK, Photographed
<1>3. u \in Users
  <2>1. (CHOOSE p \in batch : TRUE) \in batch
    BY <1>2
  <2>2. QED
    BY <1>2, <2>1, MembersAssumption
<1> HIDE DEF u
<1>4. profile' \in [Users -> [texts : 0 .. MaxMessages, photos : SUBSET Photos]]
  <2>1. [texts |-> 0, photos |-> noted] \in [texts : 0 .. MaxMessages, photos : SUBSET Photos]
    BY <1>2, MembersAssumption
  <2>2. profile \in [Users -> [texts : 0 .. MaxMessages, photos : SUBSET Photos]]
    BY DEF IInv, TypeOK
  <2>3. QED
    BY <1>1, <2>1, <2>2
<1>5. StoreOK'
  BY Parts, <1>1, <1>4 DEF StoreOK
<1>6. JobOK'
  BY Parts, <1>1, <1>2 DEF JobOK
<1>7. Photographed' /\ Timed'
  BY <1>1 DEF IInv, Photographed, Timed
<1>8. ASSUME NEW w \in Users
      PROVE  \/ profile'[w].texts = profile[w].texts /\ (w \in excused => w \in excused')
             \/ w \in excused' /\ profile'[w].texts <= texts[w]
  <2>1. CASE w = u
    <3>1. profile'[w].texts = 0
      BY <1>1, <2>1, Parts DEF StoreOK
    <3>2. profile'[w].texts <= texts[w]
      BY <3>1, Numbers
    <3>3. w \in excused'
      BY <1>1, <2>1
    <3>4. QED
      BY <3>2, <3>3
  <2>2. CASE w # u
    BY <1>1, <2>2 DEF IInv, TypeOK
  <2>3. QED
    BY <2>1, <2>2
<1>9. QED
  BY <1>1, <1>5, <1>6, <1>7, <1>8, NoRefreshStep

LEMMA MarkKeeps ==
    ASSUME IInv, Mark
    PROVE  IInv'
<1>1. PICK p \in batch : marked' = marked \cup {p} /\ batch' = batch \ {p}
  BY DEF Mark
<1>2. /\ UNCHANGED <<present, active, received, texts, due, sent, profile, connection, refresh,
                     queue, noted, nextTick, refreshedAt, now, claimedAt, saved, excused>>
      /\ dailyStep = "mark" /\ dailyStep' = IF batch' = {} THEN "photos" ELSE "mark"
  BY DEF Mark, memberVars, clockVars
<1>3. p \in sent /\ p \in saved /\ batch \subseteq sent /\ noted = {}
  BY <1>1, <1>2 DEF IInv, Photographed
<1>4. StoreOK'
  BY Parts, <1>1, <1>2, <1>3 DEF StoreOK
<1>5. JobOK'
  BY Parts, <1>1, <1>2 DEF JobOK
<1>6. Photographed' /\ Timed'
  BY <1>1, <1>2, <1>3 DEF IInv, Photographed, Timed
<1>7. QED
  BY <1>2, <1>4, <1>5, <1>6, NoRefreshStep

LEMMA ClockKeeps ==
    ASSUME IInv, Done \/ Wake \/ Tick
    PROVE  IInv'
<1>1. /\ UNCHANGED <<present, active, received, texts, due, sent, marked, profile, connection, refresh,
                     queue, batch, noted, refreshedAt, claimedAt, saved, excused>>
      /\ \/ /\ dailyStep = "texts" /\ refresh[Daily].step = "idle"
            /\ dailyStep' = "sleeping" /\ now' = now
            /\ nextTick' = IF nextTick = Never THEN now + Day ELSE nextTick
         \/ /\ dailyStep = "sleeping" /\ now >= nextTick
            /\ dailyStep' = "claim" /\ nextTick' = nextTick + Day /\ now' = now
         \/ /\ dailyStep = "sleeping" /\ now < nextTick /\ now < MaxTime
            /\ UNCHANGED <<dailyStep, nextTick>> /\ now' = now + 1
  BY DEF Done, Sleep, Wake, Tick, memberVars, storeVars, clockVars, jobVars
<1>2. now \in Nat /\ Day \in Nat /\ MaxTime \in Nat
  BY Numbers
<1>3. StoreOK'
  BY Parts, <1>1 DEF StoreOK
<1>4. JobOK'
  <2>1. now' \in 0 .. MaxTime /\ now <= now'
    BY <1>1, Numbers
  <2>2. {refreshedAt', claimedAt'} \subseteq Never .. now'
    BY <1>1, <2>1, Numbers DEF Never
  <2>3. QED
    BY Parts, <1>1, <2>1, <2>2 DEF JobOK
<1>5. Photographed'
  BY <1>1 DEF IInv, Photographed
<1>6. Timed'
  BY <1>1, <1>2 DEF IInv, Timed, Never
<1>7. QED
  BY <1>1, <1>3, <1>4, <1>5, <1>6, NoRefreshStep

-----------------------------------------------------------------------------
(* Steps of the refreshes.                                                 *)

\* A message or a command starts the refreshes T of its sender u.
LEMMA RefreshesBegin ==
    ASSUME IInv, NEW u \in Users, NEW T \in SUBSET Refreshes,
           connection = Free, received' = received + 1, received < MaxMessages,
           \/ Background(received + 1) \in T /\ due' = [due EXCEPT ![u] = texts'[u]]
           \/ due' = due,
           T \subseteq {Background(received + 1), Foreground(received + 1)},
           refresh' = [r \in Refreshes |-> IF r \in T THEN Begun(u) ELSE refresh[r]],
           texts' \in [Users -> Nat],
           \A w \in Users : w # u => texts'[w] = texts[w],
           texts'[u] \in {texts[u], texts[u] + 1},
           active' \in [Users -> BOOLEAN],
           UNCHANGED <<present, sent, marked, profile, connection, jobVars, clockVars,
                       saved, excused>>
    PROVE  IInv'
<1> DEFINE n == received + 1
<1>1. /\ UNCHANGED <<present, sent, marked, profile, connection, dailyStep, queue, batch, noted,
                     nextTick, refreshedAt, now, claimedAt, saved, excused>>
      /\ received' = n /\ n \in 1 .. MaxMessages
  <2>1. n \in 1 .. MaxMessages
    BY Numbers
  <2>2. QED
    BY <2>1 DEF jobVars, clockVars
<1>2. /\ Background(n) \in Refreshes /\ Foreground(n) \in Refreshes /\ Daily \notin T
      /\ \A m \in n + 1 .. MaxMessages : Background(m) \notin T /\ Foreground(m) \notin T
  <2>1. /\ Background(n) \in Refreshes /\ Foreground(n) \in Refreshes
        /\ Background(n) # Daily /\ Foreground(n) # Daily
    BY <1>1, PlacesOfAMessage
  <2>2. ASSUME NEW m \in n + 1 .. MaxMessages
        PROVE  Background(m) \notin T /\ Foreground(m) \notin T
    <3>1. m \in 1 .. MaxMessages /\ m # n
      BY <1>1, <2>2, Numbers
    <3>2. /\ Background(m) # Foreground(n) /\ Background(m) # Background(n)
          /\ Foreground(m) # Foreground(n)
      BY <1>1, <3>1, PlacesOfAMessage
    <3>3. Background(n) # Foreground(m)
      BY <1>1, <3>1, PlacesOfAMessage
    <3>4. QED
      BY <3>2, <3>3
  <2>3. QED
    BY <2>1, <2>2
<1>3. /\ Begun(u) \in RefreshRecords
      /\ Begun(u).step = "query" /\ Begun(u).user = u /\ Begun(u).read = 0
  BY RecordsStartAndEnd
<1>4. /\ refresh \in [Refreshes -> RefreshRecords]
      /\ \A m \in received + 1 .. MaxMessages :
            refresh[Background(m)].step = "idle" /\ refresh[Foreground(m)].step = "idle"
  BY DEF IInv, Started
<1>5. refresh' \in [Refreshes -> RefreshRecords]
  BY <1>3, <1>4
<1>6. /\ \A r \in T : refresh'[r] = Begun(u)
      /\ \A r \in Refreshes \ T : refresh'[r] = refresh[r]
  OBVIOUS
<1>7. \A w \in Users : /\ texts'[w] \in Nat /\ texts[w] \in Nat /\ texts[w] <= texts'[w]
                       /\ texts'[w] <= n
  BY <1>1, Numbers
<1>8. Started'
  <2>1. ASSUME NEW m \in n + 1 .. MaxMessages
        PROVE  refresh'[Background(m)].step = "idle" /\ refresh'[Foreground(m)].step = "idle"
    <3>1. m \in 1 .. MaxMessages /\ m \in received + 1 .. MaxMessages
      BY <1>1, <2>1, Numbers
    <3>2. Background(m) \in Refreshes /\ Foreground(m) \in Refreshes
      BY <3>1, PlacesOfAMessage
    <3>3. QED
      BY <1>2, <1>4, <1>6, <2>1, <3>1, <3>2
  <2>2. QED
    BY <1>1, <1>5, <2>1 DEF Started, Background, Foreground
<1>9. RefreshOK'
  <2>1. ASSUME NEW r \in Refreshes
        PROVE  /\ refresh'[r].step = "reading" => connection' = r
               /\ refresh'[r].read <= texts'[refresh'[r].user]
    <3>1. CASE r \in T
      BY <1>3, <1>6, <1>7, <3>1
    <3>2. CASE r \notin T
      <4>1. refresh'[r] = refresh[r] /\ refresh[r].user \in Users /\ refresh[r].read \in Nat
        BY <1>4, <1>6, <3>2 DEF RefreshRecords
      <4>2. /\ refresh[r].step = "reading" => connection = r
            /\ refresh[r].read <= texts[refresh[r].user]
        BY Parts DEF RefreshOK
      <4>3. refresh[r].read <= texts'[refresh[r].user]
        BY <1>7, <4>1, <4>2
      <4>4. QED
        BY <1>1, <4>1, <4>2, <4>3
    <3>3. QED
      BY <3>1, <3>2
  <2>2. QED
    BY <2>1 DEF RefreshOK
<1>10. StoreOK'
  <2>1. texts' \in [Users -> 0 .. received'] /\ due' \in [Users -> 0 .. received']
    <3>1. due \in [Users -> 0 .. received] /\ received \in Nat
      BY Numbers, Parts DEF StoreOK
    <3>2. QED
      BY <1>1, <1>7, <3>1
  <2>2. received' \in 0 .. MaxMessages
    BY <1>1, Numbers
  <2>3. QED
    BY <1>1, <2>1, <2>2, Parts DEF StoreOK
<1>11. JobOK'
  <2>1. refresh'[Daily] = refresh[Daily]
    BY <1>2, <1>6, MembersAssumption DEF Daily, Refreshes
  <2>2. QED
    BY <1>1, <2>1, Parts DEF JobOK
<1>12. TypeOK'
  <2>1. \A r \in Refreshes : refresh'[r].step \in Steps
    BY <1>5 DEF RefreshRecords
  <2>2. QED
    BY <1>9, <1>10, <1>11, <2>1 DEF TypeOK, RefreshOK, StoreOK, JobOK, Steps
<1>13. Photographed' /\ Timed'
  BY <1>1 DEF IInv, Photographed, Timed
<1>14. Current'
  <2>1. ASSUME NEW w \in Users
        PROVE  /\ profile'[w].texts <= texts'[w] /\ due'[w] <= texts'[w]
               /\ \/ w \in excused'
                  \/ profile'[w].texts >= due'[w]
                  \/ \E r \in Refreshes : ReadsAll(r, w)'
    <3>1. profile'[w].texts <= texts'[w] /\ due[w] <= texts'[w]
      BY <1>1, <1>7, Numbers DEF IInv, Current
    <3>2. due'[w] = texts'[w] \/ due'[w] = due[w]
      BY Parts DEF StoreOK
    <3>3. CASE w = u /\ Background(n) \in T
      BY <1>2, <1>3, <1>6, <1>7, <3>1, <3>2, <3>3 DEF ReadsAll
    <3>4. CASE ~(w = u /\ Background(n) \in T)
      <4>1. due'[w] = due[w]
        BY <3>4, Parts DEF StoreOK
      <4>2. ASSUME NEW r \in Refreshes, ReadsAll(r, w)
            PROVE  ReadsAll(r, w)'
        <5>1. r \notin T
          BY <1>2, <1>4, <1>1, <4>2, Numbers DEF ReadsAll
        <5>2. QED
          BY <1>6, <4>1, <4>2, <5>1 DEF ReadsAll
      <4>3. QED
        BY <1>1, <3>1, <4>1, <4>2 DEF IInv, Current
    <3>5. QED
      BY <3>3, <3>4
  <2>2. QED
    BY <2>1 DEF Current
<1>15. QED
  BY <1>8, <1>12, <1>13, <1>14 DEF IInv

LEMMA MessageKeeps ==
    ASSUME IInv, NEW u \in Users, Message(u)
    PROVE  IInv'
<1> DEFINE T == {Background(received + 1)}
<1>1. /\ connection = Free /\ received' = received + 1 /\ received < MaxMessages
      /\ active' = [active EXCEPT ![u] = TRUE]
      /\ texts' = [texts EXCEPT ![u] = @ + 1] /\ due' = [due EXCEPT ![u] = texts'[u]]
      /\ refresh' = [refresh EXCEPT ![Background(received + 1)] = Begun(u)]
      /\ UNCHANGED <<present, sent, marked, profile, connection, jobVars, clockVars,
                     saved, excused>>
  BY DEF Message, Seen
<1>2. received + 1 \in 1 .. MaxMessages
  BY <1>1, Numbers
<1>3. Background(received + 1) \in Refreshes
  BY <1>2, PlacesOfAMessage
<1>4. refresh' = [r \in Refreshes |-> IF r \in T THEN Begun(u) ELSE refresh[r]]
  BY <1>1 DEF IInv, Started
<1>5. texts \in [Users -> Nat]
  BY Numbers, Parts DEF StoreOK
<1>6. /\ texts' \in [Users -> Nat] /\ texts'[u] = texts[u] + 1
      /\ \A w \in Users : w # u => texts'[w] = texts[w]
  BY <1>1, <1>5
<1>7. active' \in [Users -> BOOLEAN]
  BY <1>1, Parts, Zenon DEF StoreOK
<1>8. QED
  BY <1>1, <1>3, <1>4, <1>6, <1>7, RefreshesBegin

LEMMA ContextReplyKeeps ==
    ASSUME IInv, NEW u \in Users, ContextReply(u)
    PROVE  IInv'
<1> DEFINE T == {Background(received + 1), Foreground(received + 1)}
<1>1. /\ connection = Free /\ received' = received + 1 /\ received < MaxMessages
      /\ active' = [active EXCEPT ![u] = TRUE]
      /\ texts' = texts /\ due' = [due EXCEPT ![u] = texts'[u]]
      /\ refresh' = [refresh EXCEPT ![Background(received + 1)] = Begun(u),
                                    ![Foreground(received + 1)] = Begun(u)]
      /\ UNCHANGED <<present, sent, marked, profile, connection, jobVars, clockVars,
                     saved, excused>>
  <2>1. texts' = texts /\ due' = [due EXCEPT ![u] = texts'[u]]
    BY DEF ContextReply
  <2>2. QED
    BY <2>1 DEF ContextReply, Seen
<1>2. received + 1 \in 1 .. MaxMessages
  BY <1>1, Numbers
<1>3. Background(received + 1) \in Refreshes /\ Foreground(received + 1) \in Refreshes
  BY <1>2, PlacesOfAMessage
<1>4. refresh' = [r \in Refreshes |-> IF r \in T THEN Begun(u) ELSE refresh[r]]
  BY <1>1 DEF IInv, Started
<1>5. texts' \in [Users -> Nat] /\ texts' = texts
  BY <1>1, Numbers, Parts DEF StoreOK
<1>6. active' \in [Users -> BOOLEAN]
  BY <1>1, Parts, Zenon DEF StoreOK
<1>7. T \in SUBSET Refreshes /\ Background(received + 1) \in T
      /\ T \subseteq {Background(received + 1), Foreground(received + 1)}
  BY <1>3
<1>8. texts'[u] \in {texts[u], texts[u] + 1} /\ \A w \in Users : w # u => texts'[w] = texts[w]
  BY <1>5
<1> HIDE DEF T
<1>9. QED
  BY <1>1, <1>4, <1>5, <1>6, <1>7, <1>8, RefreshesBegin

\* The administrator's private messages and his /context there.
LEMMA PrivateKeeps ==
    ASSUME IInv, NEW u \in Users, PrivateMessage(u) \/ PrivateContext(u)
    PROVE  IInv'
<1>1. /\ connection = Free /\ received' = received + 1 /\ received < MaxMessages
      /\ active' = [active EXCEPT ![u] = TRUE] /\ due' = due
      /\ UNCHANGED <<present, sent, marked, profile, connection, jobVars, clockVars,
                     saved, excused>>
  BY DEF PrivateMessage, PrivateContext, Seen
<1>2. received + 1 \in 1 .. MaxMessages
  BY <1>1, Numbers
<1>3. Foreground(received + 1) \in Refreshes
  BY <1>2, PlacesOfAMessage
<1>4. active' \in [Users -> BOOLEAN]
  BY <1>1, Parts, Zenon DEF StoreOK
<1>5. texts \in [Users -> Nat] /\ refresh \in [Refreshes -> RefreshRecords]
  BY Numbers, Parts DEF StoreOK, IInv, Started
<1>6. CASE PrivateMessage(u)
  <2>1. texts' = [texts EXCEPT ![u] = @ + 1] /\ refresh' = refresh
    BY <1>6 DEF PrivateMessage
  <2>2. /\ texts' \in [Users -> Nat] /\ texts'[u] = texts[u] + 1
        /\ \A w \in Users : w # u => texts'[w] = texts[w]
    BY <1>5, <2>1
  <2> DEFINE T == {}
  <2>3. refresh' = [r \in Refreshes |-> IF r \in T THEN Begun(u) ELSE refresh[r]]
    BY <1>5, <2>1
  <2>4. T \in SUBSET Refreshes /\ T \subseteq {Background(received + 1), Foreground(received + 1)}
    OBVIOUS
  <2>5. texts'[u] \in {texts[u], texts[u] + 1}
    BY <2>2
  <2> HIDE DEF T
  <2>6. QED
    BY <1>1, <1>4, <2>2, <2>3, <2>4, <2>5, RefreshesBegin
<1>7. CASE PrivateContext(u)
  <2> DEFINE T == {Foreground(received + 1)}
  <2>1. refresh' = [r \in Refreshes |-> IF r \in T THEN Begun(u) ELSE refresh[r]]
    BY <1>1, <1>5, <1>7 DEF PrivateContext
  <2>2. texts' = texts /\ T \in SUBSET Refreshes
    BY <1>3, <1>7 DEF PrivateContext
  <2> HIDE DEF T
  <2>3. T \subseteq {Background(received + 1), Foreground(received + 1)}
    BY DEF T
  <2>4. QED
    BY <1>1, <1>4, <1>5, <2>1, <2>2, <2>3, RefreshesBegin
<1>8. QED
  BY <1>6, <1>7

\* Refresh r goes on as new, or is over.
LEMMA OneRefreshStep ==
    ASSUME IInv, NEW r \in Refreshes, NEW new \in RefreshRecords,
           refresh' = [refresh EXCEPT ![r] = new],
           UNCHANGED <<memberVars, storeVars, dailyStep, batch, noted, nextTick, clockVars, saved>>,
           r = Daily \/ refresh[r].step # "idle",
           r = Daily /\ new.step # "idle" => dailyStep = "texts",
           queue' \subseteq queue,
           connection' \in Refreshes \cup {Free},
           new.step = "reading" => connection' = r,
           \A s \in Refreshes \ {r} : refresh[s].step = "reading" => connection' = s,
           new.read <= texts[new.user],
           profile' \in [Users -> [texts : 0 .. MaxMessages, photos : SUBSET Photos]],
           Current'
    PROVE  IInv'
<1>1. UNCHANGED <<present, active, received, texts, due, sent, marked, dailyStep, batch, noted,
                  nextTick, refreshedAt, now, claimedAt, saved>>
  BY DEF memberVars, storeVars, clockVars
<1>2. /\ refresh \in [Refreshes -> RefreshRecords]
      /\ \A n \in received + 1 .. MaxMessages :
            refresh[Background(n)].step = "idle" /\ refresh[Foreground(n)].step = "idle"
  BY DEF IInv, Started
<1>3. /\ refresh' \in [Refreshes -> RefreshRecords]
      /\ refresh'[r] = new /\ \A s \in Refreshes \ {r} : refresh'[s] = refresh[s]
  BY <1>2
<1>4. Started'
  <2>1. ASSUME NEW n \in received + 1 .. MaxMessages
        PROVE  refresh'[Background(n)].step = "idle" /\ refresh'[Foreground(n)].step = "idle"
    <3>1. n \in 1 .. MaxMessages
      BY <2>1, Numbers
    <3>2. /\ Background(n) \in Refreshes /\ Foreground(n) \in Refreshes
          /\ Background(n) # Daily /\ Foreground(n) # Daily
      BY <3>1, PlacesOfAMessage
    <3>3. Background(n) # r /\ Foreground(n) # r
      BY <1>2, <2>1, <3>2
    <3>4. QED
      BY <1>2, <1>3, <2>1, <3>2, <3>3
  <2>2. QED
    BY <1>1, <1>3, <2>1 DEF Started, Background, Foreground
<1>5. RefreshOK'
  <2>1. ASSUME NEW s \in Refreshes
        PROVE  /\ refresh'[s].step = "reading" => connection' = s
               /\ refresh'[s].read <= texts'[refresh'[s].user]
    <3>1. CASE s = r
      BY <1>1, <1>3, <3>1
    <3>2. CASE s # r
      BY <1>1, <1>3, <3>2, Parts DEF RefreshOK
    <3>3. QED
      BY <3>1, <3>2
  <2>2. QED
    BY <2>1 DEF RefreshOK
<1>6. StoreOK'
  BY <1>1, Parts DEF StoreOK
<1>7. JobOK'
  <2>1. refresh'[Daily].step # "idle" => dailyStep = "texts"
    <3>1. Daily \in Refreshes
      BY MembersAssumption DEF Daily, Refreshes
    <3>2. QED
      BY <1>3, <3>1, Parts DEF JobOK
  <2>2. QED
    BY <1>1, <2>1, Parts DEF JobOK
<1>8. TypeOK'
  <2>1. \A s \in Refreshes : refresh'[s].step \in Steps
    BY <1>3 DEF RefreshRecords
  <2>2. QED
    BY <1>5, <1>6, <1>7, <2>1 DEF TypeOK, RefreshOK, StoreOK, JobOK, Steps
<1>9. Photographed' /\ Timed'
  BY <1>1 DEF IInv, Photographed, Timed
<1>10. QED
  BY <1>4, <1>8, <1>9 DEF IInv

\* What r has, and that nobody else loses what he reads when the connection is
\* given to r, or given up by r.
LEMMA ReadersKeepTheirs ==
    ASSUME IInv, NEW r \in Refreshes,
           connection' = connection \/ connection = Free \/ connection = r
    PROVE  /\ refresh[r] \in RefreshRecords /\ refresh[r].user \in Users
           /\ refresh[r].read \in Nat /\ refresh[r].read <= texts[refresh[r].user]
           /\ \A s \in Refreshes \ {r} : refresh[s].step = "reading" => connection' = s
<1>1. refresh[r] \in RefreshRecords
  BY DEF IInv, Started
<1>2. refresh[r].user \in Users /\ refresh[r].read \in Nat
  BY <1>1 DEF RefreshRecords
<1>3. refresh[r].read <= texts[refresh[r].user]
  BY Parts DEF RefreshOK
<1>4. \A s \in Refreshes : refresh[s].step = "reading" => connection = s /\ s # Free
  BY Parts, MembersAssumption DEF RefreshOK, Refreshes, Free
<1>5. QED
  BY <1>1, <1>2, <1>3, <1>4

\* The refreshes of the others read what they read.
LEMMA OthersRead ==
    ASSUME IInv, NEW r \in Refreshes, NEW new \in RefreshRecords,
           refresh' = [refresh EXCEPT ![r] = new], due' = due, new.user = refresh[r].user,
           NEW u \in Users,
           u # refresh[r].user \/ ~ReadsAll(r, u) \/ (new.step # "idle" /\ new.read >= due[u]),
           \E s \in Refreshes : ReadsAll(s, u)
    PROVE  \E s \in Refreshes : ReadsAll(s, u)'
<1>1. PICK s \in Refreshes : ReadsAll(s, u)
  OBVIOUS
<1>2. /\ refresh \in [Refreshes -> RefreshRecords]
      /\ refresh'[r] = new /\ \A t \in Refreshes \ {r} : refresh'[t] = refresh[t]
  BY DEF IInv, Started
<1>3. CASE s = r
  BY <1>1, <1>2, <1>3 DEF ReadsAll
<1>4. CASE s # r
  BY <1>1, <1>2, <1>4 DEF ReadsAll
<1>5. QED
  BY <1>3, <1>4

LEMMA QueryKeeps ==
    ASSUME IInv, NEW r \in Refreshes, Query(r)
    PROVE  IInv'
<1> DEFINE u == refresh[r].user
           new == [step |-> "reading", user |-> u, read |-> texts[u]]
<1>1. /\ refresh[r].step = "query" /\ connection = Free /\ connection' = r
      /\ refresh' = [refresh EXCEPT ![r].step = "reading", ![r].read = texts[u]]
      /\ UNCHANGED <<profile, excused, memberVars, storeVars, jobVars, clockVars, saved>>
  BY DEF Query, Others
<1>2. /\ refresh[r] \in RefreshRecords /\ u \in Users
      /\ \A s \in Refreshes \ {r} : refresh[s].step = "reading" => connection' = s
  BY <1>1, ReadersKeepTheirs, MembersAssumption DEF Free, Refreshes
<1>3. refresh \in [Refreshes -> RefreshRecords]
  BY DEF IInv, Started
<1>4. new \in RefreshRecords /\ new.read <= texts[new.user] /\ new.user = u
  BY <1>2, Numbers DEF RefreshRecords, Steps
<1>5. refresh' = [refresh EXCEPT ![r] = new]
  <2> DEFINE opened == [refresh[r] EXCEPT !.step = "reading"]
  <2>1. opened \in RefreshRecords /\ opened.step = "reading" /\ opened.user = u
    BY <1>2 DEF RefreshRecords, Steps
  <2>2. [opened EXCEPT !.read = texts[u]] = new
    <3> HIDE DEF opened
    <3>1. QED
      BY <2>1 DEF RefreshRecords
  <2>3. [refresh EXCEPT ![r].step = "reading", ![r].read = texts[u]]
        = [refresh EXCEPT ![r] = [opened EXCEPT !.read = texts[u]]]
    BY <1>3
  <2>4. QED
    BY <1>1, <2>2, <2>3
<1>6. Current'
  <2>1. texts' = texts /\ due' = due /\ profile' = profile /\ excused' = excused
    BY <1>1 DEF storeVars
  <2>2. ASSUME NEW w \in Users, \E s \in Refreshes : ReadsAll(s, w)
        PROVE  \E s \in Refreshes : ReadsAll(s, w)'
    <3>1. w # u \/ ~ReadsAll(r, w) \/ (new.step # "idle" /\ new.read >= due[w])
      BY <1>2, Numbers DEF IInv, Current
    <3> HIDE DEF new
    <3>2. QED
      BY <1>4, <1>5, <2>1, <2>2, <3>1, OthersRead
  <2>3. QED
    BY <2>1, <2>2 DEF IInv, Current
<1>7. new.step = "reading"
  OBVIOUS
<1> HIDE DEF new
<1>8. QED
  BY <1>1, <1>2, <1>4, <1>5, <1>6, <1>7, Parts, OneRefreshStep DEF jobVars, StoreOK, JobOK

LEMMA CloseCursorKeeps ==
    ASSUME IInv, NEW r \in Refreshes, CloseCursor(r)
    PROVE  IInv'
<1> DEFINE u == refresh[r].user
           ends == refresh[r].read = 0
           new == IF ends THEN Idle ELSE [step |-> "asking", user |-> u, read |-> refresh[r].read]
<1>1. /\ refresh[r].step = "reading" /\ connection' = Free
      /\ IF ends THEN refresh' = [refresh EXCEPT ![r] = Idle]
         ELSE refresh' = [refresh EXCEPT ![r].step = "asking"]
      /\ UNCHANGED <<profile, excused, memberVars, storeVars, jobVars, clockVars, saved>>
  BY DEF CloseCursor, Others, Step, Ends
<1>2. /\ refresh[r] \in RefreshRecords /\ u \in Users /\ refresh[r].read \in Nat
      /\ refresh[r].read <= texts[u] /\ connection = r
      /\ \A s \in Refreshes \ {r} : refresh[s].step = "reading" => connection' = s
  <2>1. connection = r
    BY <1>1, Parts DEF RefreshOK
  <2>2. QED
    BY <1>1, <2>1, ReadersKeepTheirs
<1>3. refresh \in [Refreshes -> RefreshRecords]
  BY DEF IInv, Started
<1>4. /\ new \in RefreshRecords /\ new.read = refresh[r].read /\ new.step # "reading"
      /\ ~ends => new.user = u
      /\ ends => new = Idle
  BY <1>2, RecordsStartAndEnd DEF RefreshRecords, Steps
<1>5. refresh' = [refresh EXCEPT ![r] = new]
  <2>1. CASE ends
    BY <1>1, <2>1
  <2>2. CASE ~ends
    <3>1. [refresh[r] EXCEPT !.step = "asking"] = new
      BY <1>2, <2>2 DEF RefreshRecords
    <3>2. QED
      BY <1>1, <1>3, <2>2, <3>1
  <2>3. QED
    BY <2>1, <2>2
<1>6. Current'
  <2>1. texts' = texts /\ due' = due /\ profile' = profile /\ excused' = excused
    BY <1>1 DEF storeVars
  <2>2. ASSUME NEW w \in Users, ~ends, \E s \in Refreshes : ReadsAll(s, w)
        PROVE  \E s \in Refreshes : ReadsAll(s, w)'
    <3>1. w # u \/ ~ReadsAll(r, w) \/ (new.step # "idle" /\ new.read >= due[w])
      BY <1>1, <2>2 DEF ReadsAll
    <3>2. new.user = refresh[r].user
      BY <1>4, <2>2
    <3> HIDE DEF new
    <3>3. QED
      BY <1>4, <1>5, <2>1, <2>2, <3>1, <3>2, OthersRead
  <2>3. ASSUME NEW w \in Users, ends, ~(profile[w].texts >= due[w]),
               NEW s \in Refreshes, ReadsAll(s, w)
        PROVE  ReadsAll(s, w)'
    <3>1. s # r
      <4>1. SUFFICES ASSUME s = r PROVE FALSE
        OBVIOUS
      <4>2. w = u /\ 0 >= due[u]
        BY <1>1, <2>3, <4>1 DEF ReadsAll
      <4>3. profile[u].texts \in Nat /\ due[u] \in Nat
        BY <1>2, Numbers
      <4>4. QED
        BY <2>3, <4>2, <4>3
    <3>2. refresh'[s] = refresh[s]
      BY <1>3, <1>5, <3>1
    <3>3. QED
      BY <2>1, <2>3, <3>2 DEF ReadsAll
  <2>4. QED
    BY <2>1, <2>2, <2>3 DEF IInv, Current
<1>7. new.read <= texts[new.user]
  BY <1>2, <1>4, Numbers, RecordsStartAndEnd DEF RefreshRecords
<1>8. r = Daily /\ new.step # "idle" => dailyStep = "texts"
  BY <1>1, Parts DEF JobOK
<1> HIDE DEF new, ends
<1>9. QED
  BY <1>1, <1>2, <1>4, <1>5, <1>6, <1>7, <1>8, OneRefreshStep, Parts DEF jobVars, StoreOK

LEMMA ModelAnswersKeeps ==
    ASSUME IInv, NEW r \in Refreshes, ModelAnswers(r)
    PROVE  IInv'
<1> DEFINE u == refresh[r].user
           new == [step |-> "saving", user |-> u, read |-> refresh[r].read]
<1>1. /\ refresh[r].step = "asking"
      /\ refresh' = [refresh EXCEPT ![r].step = "saving"]
      /\ UNCHANGED <<profile, excused, connection, memberVars, storeVars, jobVars, clockVars, saved>>
  BY DEF ModelAnswers, Others, Step
<1>2. /\ refresh[r] \in RefreshRecords /\ u \in Users /\ refresh[r].read \in Nat
      /\ refresh[r].read <= texts[u]
      /\ \A s \in Refreshes \ {r} : refresh[s].step = "reading" => connection' = s
  BY <1>1, ReadersKeepTheirs
<1>3. refresh \in [Refreshes -> RefreshRecords]
  BY DEF IInv, Started
<1>4. /\ new \in RefreshRecords /\ new.read = refresh[r].read /\ new.step = "saving"
      /\ new.user = u
  BY <1>2 DEF RefreshRecords, Steps
<1>5. refresh' = [refresh EXCEPT ![r] = new]
  <2>1. [refresh[r] EXCEPT !.step = "saving"] = new
    BY <1>2 DEF RefreshRecords
  <2>2. QED
    BY <1>1, <1>3, <2>1
<1> HIDE DEF new
<1>6. Current'
  <2>1. texts' = texts /\ due' = due /\ profile' = profile /\ excused' = excused
    BY <1>1 DEF storeVars
  <2>2. ASSUME NEW w \in Users, \E s \in Refreshes : ReadsAll(s, w)
        PROVE  \E s \in Refreshes : ReadsAll(s, w)'
    <3>1. w # u \/ ~ReadsAll(r, w) \/ (new.step # "idle" /\ new.read >= due[w])
      BY <1>1, <1>4 DEF ReadsAll
    <3>2. QED
      BY <1>4, <1>5, <2>1, <2>2, <3>1, OthersRead
  <2>3. QED
    BY <2>1, <2>2 DEF IInv, Current
<1>7. r = Daily => dailyStep = "texts"
  BY <1>1, Parts DEF JobOK
<1>8. QED
  BY <1>1, <1>2, <1>4, <1>5, <1>6, <1>7, OneRefreshStep, Parts DEF jobVars, StoreOK

\* A refresh that is over without a result leaves its user excused.
LEMMA FailsKeeps ==
    ASSUME IInv, NEW r \in Refreshes, Fails(r)
    PROVE  IInv'
<1> DEFINE u == refresh[r].user
<1>1. /\ refresh[r].step # "idle"
      /\ refresh' = [refresh EXCEPT ![r] = Idle]
      /\ connection' = IF connection = r THEN Free ELSE connection
      /\ excused' = excused \cup {u}
      /\ UNCHANGED <<profile, memberVars, storeVars, jobVars, clockVars, saved>>
  BY DEF Fails, Others, Ends
<1>2. /\ refresh[r] \in RefreshRecords /\ u \in Users
      /\ \A s \in Refreshes \ {r} : refresh[s].step = "reading" => connection' = s
  BY <1>1, Parts, ReadersKeepTheirs DEF RefreshOK
<1>3. /\ Idle \in RefreshRecords /\ Idle.step = "idle" /\ Idle.read <= texts[Idle.user]
  BY RecordsStartAndEnd, Numbers DEF RefreshRecords
<1>4. Current'
  <2>1. texts' = texts /\ due' = due /\ profile' = profile /\ excused' = excused \cup {u}
    BY <1>1 DEF storeVars
  <2>2. ASSUME NEW w \in Users \ {u}, NEW s \in Refreshes, ReadsAll(s, w)
        PROVE  ReadsAll(s, w)'
    <3>1. s # r
      BY <2>2 DEF ReadsAll
    <3>2. refresh'[s] = refresh[s]
      BY <1>1, <3>1 DEF IInv, Started
    <3>3. QED
      BY <2>1, <2>2, <3>2 DEF ReadsAll
  <2>3. QED
    BY <2>1, <2>2 DEF IInv, Current
<1>5. QED
  BY <1>1, <1>2, <1>3, <1>4, OneRefreshStep, Parts DEF jobVars, StoreOK

\* A profile that is made of fewer texts than there are is followed by another
\* refresh, unless a later one has come before it.
LEMMA SaveKeeps ==
    ASSUME IInv, NEW r \in Refreshes, Save(r)
    PROVE  IInv'
<1> DEFINE u == refresh[r].user
           read == refresh[r].read
           made == [texts |-> read, photos |-> {}]
<1>1. /\ refresh[r].step = "saving"
      /\ refresh' = [refresh EXCEPT ![r] = Idle]
      /\ profile' = [profile EXCEPT ![u] = made]
      /\ excused' = IF read >= due[u] THEN excused \ {u} ELSE
                    IF read < profile[u].texts THEN excused \cup {u} ELSE excused
      /\ UNCHANGED <<connection, memberVars, storeVars, jobVars, clockVars, saved>>
  BY DEF Save, Others, Ends
<1>2. /\ refresh[r] \in RefreshRecords /\ u \in Users /\ read \in Nat /\ read <= texts[u]
      /\ \A s \in Refreshes \ {r} : refresh[s].step = "reading" => connection' = s
  BY <1>1, Parts, ReadersKeepTheirs DEF RefreshOK
<1>3. /\ Idle \in RefreshRecords /\ Idle.step = "idle" /\ Idle.read <= texts[Idle.user]
  BY RecordsStartAndEnd, Numbers DEF RefreshRecords
<1>4. profile \in [Users -> [texts : 0 .. MaxMessages, photos : SUBSET Photos]]
  BY Parts DEF StoreOK
<1>5. /\ profile' \in [Users -> [texts : 0 .. MaxMessages, photos : SUBSET Photos]]
      /\ profile'[u].texts = read
      /\ \A w \in Users \ {u} : profile'[w] = profile[w]
  <2>1. read \in 0 .. MaxMessages
    BY <1>2, Numbers
  <2>2. made \in [texts : 0 .. MaxMessages, photos : SUBSET Photos] /\ made.texts = read
    BY <2>1
  <2> HIDE DEF made
  <2>3. QED
    BY <1>1, <1>2, <1>4, <2>2
<1>6. Current'
  <2>1. texts' = texts /\ due' = due
    BY <1>1 DEF storeVars
  <2>2. \A w \in Users : profile'[w].texts <= texts[w] /\ due[w] <= texts[w]
    BY <1>2, <1>5 DEF IInv, Current
  <2>3. ASSUME NEW w \in Users, NEW s \in Refreshes, ReadsAll(s, w), w # u \/ ~(read >= due[u])
        PROVE  ReadsAll(s, w)'
    <3>1. s # r
      BY <1>1, <2>3 DEF ReadsAll
    <3>2. refresh'[s] = refresh[s]
      BY <1>1, <3>1 DEF IInv, Started
    <3>3. QED
      BY <2>1, <2>3, <3>2 DEF ReadsAll
  <2>4. ASSUME NEW w \in Users, w # u
        PROVE  \/ w \in excused' \/ profile'[w].texts >= due[w]
               \/ \E s \in Refreshes : ReadsAll(s, w)'
    BY <1>1, <1>5, <2>3, <2>4 DEF IInv, Current
  <2>5. ASSUME NEW w \in Users, w = u
        PROVE  \/ w \in excused' \/ profile'[w].texts >= due[w]
               \/ \E s \in Refreshes : ReadsAll(s, w)'
    <3>1. CASE read >= due[w]
      BY <1>5, <2>5, <3>1
    <3>2. CASE ~(read >= due[w])
      <4>1. read < due[w] /\ read \in Nat /\ due[w] \in Nat /\ profile[w].texts \in Nat
        BY <1>2, <2>5, <3>2, Numbers
      <4>2. profile[w].texts >= due[w] => w \in excused'
        BY <1>1, <2>5, <3>2, <4>1
      <4>3. w \in excused => w \in excused'
        BY <1>1, <2>5, <3>2
      <4>4. \/ w \in excused \/ profile[w].texts >= due[w]
            \/ \E s \in Refreshes : ReadsAll(s, w)
        BY DEF IInv, Current
      <4>5. ASSUME NEW s \in Refreshes, ReadsAll(s, w)
            PROVE  ReadsAll(s, w)'
        BY <2>3, <2>5, <3>2, <4>5
      <4>6. QED
        BY <4>2, <4>3, <4>4, <4>5
    <3>3. QED
      BY <3>1, <3>2
  <2>6. ASSUME NEW w \in Users
        PROVE  \/ w \in excused' \/ profile'[w].texts >= due[w]
               \/ \E s \in Refreshes : ReadsAll(s, w)'
    BY <2>4, <2>5
  <2>7. QED
    BY <2>1, <2>2, <2>6 DEF Current
<1>7. QED
  BY <1>1, <1>2, <1>3, <1>5, <1>6, OneRefreshStep, Parts DEF jobVars, StoreOK

\* The daily job refreshes one user after another.
LEMMA RefreshOneKeeps ==
    ASSUME IInv, NEW u \in Users, RefreshOne(u)
    PROVE  IInv'
<1>1. /\ dailyStep = "texts" /\ refresh[Daily].step = "idle"
      /\ queue' = queue \ {u}
      /\ refresh' = [refresh EXCEPT ![Daily] = Begun(u)]
      /\ UNCHANGED <<memberVars, storeVars, profile, connection, dailyStep, batch, noted,
                     nextTick, clockVars, saved, excused>>
  BY DEF RefreshOne
<1>2. Daily \in Refreshes
  BY MembersAssumption DEF Daily, Refreshes
<1>3. \A s \in Refreshes \ {Daily} : refresh[s].step = "reading" => connection' = s
  BY <1>1, Parts DEF RefreshOK
<1>4. /\ Begun(u) \in RefreshRecords /\ Begun(u).step # "reading"
      /\ Begun(u).read <= texts[Begun(u).user]
  BY RecordsStartAndEnd, Numbers
<1>5. Current'
  <2>1. texts' = texts /\ due' = due /\ profile' = profile /\ excused' = excused
    BY <1>1 DEF storeVars
  <2>2. ASSUME NEW w \in Users, NEW s \in Refreshes, ReadsAll(s, w)
        PROVE  ReadsAll(s, w)'
    <3>1. s # Daily
      BY <1>1, <2>2 DEF ReadsAll
    <3>2. refresh'[s] = refresh[s]
      BY <1>1, <3>1 DEF IInv, Started
    <3>3. QED
      BY <2>1, <2>2, <3>2 DEF ReadsAll
  <2>3. QED
    BY <2>1, <2>2 DEF IInv, Current
<1>6. queue' \subseteq queue /\ connection' \in Refreshes \cup {Free}
      /\ profile' \in [Users -> [texts : 0 .. MaxMessages, photos : SUBSET Photos]]
  BY <1>1, Parts DEF StoreOK
<1>7. QED
  BY <1>1, <1>2, <1>3, <1>4, <1>5, <1>6, OneRefreshStep

\* With the process go the refreshes; their users are excused.
LEMMA CrashKeeps ==
    ASSUME IInv, Crash
    PROVE  IInv'
<1> DEFINE hit == {refresh[r].user : r \in {s \in Refreshes : refresh[s].step # "idle"}}
<1>1. /\ connection' = Free /\ refresh' = [r \in Refreshes |-> Idle]
      /\ dailyStep' = "claim" /\ queue' = {} /\ batch' = {} /\ noted' = {}
      /\ nextTick' = Never /\ excused' = excused \cup hit
      /\ UNCHANGED <<present, active, received, texts, due, sent, marked, profile, refreshedAt, now,
                     claimedAt, saved>>
  BY DEF Crash, memberVars, storeVars, clockVars
<1>2. Idle \in RefreshRecords /\ Idle.step = "idle" /\ Idle.read = 0
  BY RecordsStartAndEnd
<1>3. \A r \in Refreshes : refresh'[r] = Idle
  BY <1>1
<1>4. \A n \in 1 .. MaxMessages : Background(n) \in Refreshes /\ Foreground(n) \in Refreshes
  BY PlacesOfAMessage
<1>5. Started'
  <2>1. \A n \in received + 1 .. MaxMessages : n \in 1 .. MaxMessages
    BY Numbers
  <2>2. \A n \in received + 1 .. MaxMessages :
            refresh'[Background(n)].step = "idle" /\ refresh'[Foreground(n)].step = "idle"
    BY <1>2, <1>3, <1>4, <2>1
  <2>3. QED
    BY <1>1, <1>2, <2>2 DEF Started, Background, Foreground
<1>6. RefreshOK'
  <2>1. Idle.user \in Users /\ Idle.read <= texts[Idle.user]
    BY <1>2, Numbers DEF RefreshRecords
  <2>2. QED
    BY <1>1, <1>2, <1>3, <2>1 DEF RefreshOK
<1>7. StoreOK'
  BY <1>1, Parts DEF StoreOK
<1>8. JobOK'
  <2>1. refresh'[Daily].step = "idle"
    BY <1>2, <1>3, MembersAssumption DEF Daily, Refreshes
  <2>2. QED
    BY <1>1, <2>1, Parts DEF JobOK
<1>9. TypeOK'
  <2>1. \A s \in Refreshes : refresh'[s].step \in Steps
    BY <1>2, <1>3 DEF Steps
  <2>2. QED
    BY <1>6, <1>7, <1>8, <2>1 DEF TypeOK, RefreshOK, StoreOK, JobOK, Steps
<1>10. Photographed' /\ Timed'
  BY <1>1 DEF IInv, Photographed, Timed
<1>11. Current'
  <2>1. \A w \in Users, r \in Refreshes : ReadsAll(r, w) => w \in hit
    BY DEF ReadsAll
  <2>2. QED
    BY <1>1, <2>1 DEF IInv, Current
<1>12. QED
  BY <1>5, <1>9, <1>10, <1>11 DEF IInv

-----------------------------------------------------------------------------
(* The strengthening holds.                                                *)

LEMMA InitHolds == Init => IInv
<1> SUFFICES ASSUME Init PROVE IInv
  OBVIOUS
<1>1. /\ refresh = [r \in Refreshes |-> Idle] /\ \A r \in Refreshes : refresh[r] = Idle
      /\ received = 0 /\ texts = [u \in Users |-> 0] /\ due = texts
      /\ profile = [u \in Users |-> NoProfile]
      /\ Idle \in RefreshRecords /\ Idle.step = "idle" /\ Idle.read = 0 /\ Idle.user \in Users
  <2>1. Idle \in RefreshRecords /\ Idle.step = "idle" /\ Idle.read = 0
    BY RecordsStartAndEnd
  <2>2. Idle.user \in Users
    BY <2>1 DEF RefreshRecords
  <2>3. QED
    BY <2>1, <2>2 DEF Init
<1>2. Started
  <2>1. \A n \in 1 .. MaxMessages : Background(n) \in Refreshes /\ Foreground(n) \in Refreshes
    BY PlacesOfAMessage
  <2>2. received + 1 = 1
    BY <1>1
  <2>3. QED
    BY <1>1, <2>1, <2>2 DEF Started
<1>3. RefreshOK
  BY <1>1 DEF RefreshOK
<1>4. StoreOK
  <2>1. present \in [Users -> BOOLEAN] /\ active \in [Users -> BOOLEAN]
    BY Zenon DEF Init
  <2>2. /\ received \in 0 .. MaxMessages
        /\ texts \in [Users -> 0 .. received] /\ due \in [Users -> 0 .. received]
    BY <1>1, MembersAssumption
  <2>3. profile \in [Users -> [texts : 0 .. MaxMessages, photos : SUBSET Photos]]
    <3>1. NoProfile \in [texts : 0 .. MaxMessages, photos : SUBSET Photos]
      BY MembersAssumption DEF NoProfile
    <3>2. QED
      BY <1>1, <3>1
  <2>4. sent \subseteq Photos /\ marked \subseteq sent /\ connection \in Refreshes \cup {Free}
    BY DEF Init
  <2>5. QED
    BY <2>1, <2>2, <2>3, <2>4 DEF StoreOK
<1>5. JobOK
  <2>1. refresh[Daily].step = "idle"
    BY <1>1, MembersAssumption DEF Daily, Refreshes
  <2>2. now \in 0 .. MaxTime /\ {refreshedAt, claimedAt} \subseteq Never .. now
    BY MembersAssumption DEF Init, Never
  <2>3. dailyStep = "claim" /\ batch = {}
    BY DEF Init
  <2>4. QED
    BY <2>1, <2>2, <2>3 DEF JobOK
<1>6. TypeOK
  BY <1>2, <1>3, <1>4, <1>5, TypeParts DEF Started
<1>7. Photographed /\ Timed
  BY DEF Init, Photographed, Timed, Never
<1>8. Current
  BY <1>1 DEF NoProfile, Current
<1>9. QED
  BY <1>2, <1>6, <1>7, <1>8 DEF IInv

LEMMA FrameKeeps ==
    ASSUME IInv, UNCHANGED vars
    PROVE  IInv'
<1>1. UNCHANGED <<present, active, received, texts, due, sent, marked, profile, connection, refresh,
                  dailyStep, queue, batch, noted, nextTick, refreshedAt, now, claimedAt, saved,
                  excused>>
  BY DEF vars, memberVars, storeVars, jobVars, clockVars
<1>2. StoreOK' /\ JobOK'
  BY <1>1, Parts DEF StoreOK, JobOK
<1>3. Photographed' /\ Timed'
  BY <1>1 DEF IInv, Photographed, Timed
<1>4. QED
  BY <1>1, <1>2, <1>3, NoRefreshStep

LEMMA NextKeeps == IInv /\ [Next]_vars => IInv'
<1> SUFFICES ASSUME IInv, [Next]_vars PROVE IInv'
  OBVIOUS
<1>1. CASE Updates
  BY <1>1, MessageKeeps, ContextReplyKeeps, PrivateKeeps, PhotoKeeps, MembershipKeeps DEF Updates
<1>2. ASSUME NEW r \in Refreshes, Refreshing(r)
      PROVE  IInv'
  BY <1>2, QueryKeeps, CloseCursorKeeps, ModelAnswersKeeps, FailsKeeps, SaveKeeps DEF Refreshing
<1>3. CASE DailyJob
  BY <1>3, ClaimKeeps, LoadKeeps, SaveNoteKeeps, MarkKeeps, ClockKeeps, DescribeKeeps,
     RefreshOneKeeps DEF DailyJob
<1>4. CASE Tick
  BY <1>4, ClockKeeps
<1>5. CASE Crash
  BY <1>5, CrashKeeps
<1>6. CASE UNCHANGED vars
  BY <1>6, FrameKeeps
<1>7. QED
  BY <1>1, <1>2, <1>3, <1>4, <1>5, <1>6 DEF Next

\* In every reachable state, for any users, photos and number of messages, the
\* strengthening holds.
THEOREM IInvHolds == Spec => []IInv
<1>1. QED
  BY InitHolds, NextKeeps, PTL DEF Spec

\* telegram.go, enrichImages: a photo is marked as used only after a note that
\* was made of its batch is in a profile, wherever a crash comes; and every
\* variable has its type, the connection's holder among them.
THEOREM PhotosAreMarkedAfterTheirNote == Spec => []MembersInv
<1>1. IInv => MembersInv
  BY DEF IInv, Photographed, MembersInv, MarkedAfterNote
<1>2. QED
  BY <1>1, IInvHolds, PTL

\* telegram.go, refreshUserContext: when the refreshes have come to rest, a
\* profile is made of all the texts of its member up to his last in the group,
\* however the refreshes overlapped, with the exceptions that the property names.
THEOREM RestingProfilesAreCurrent == Spec => []ProfileIsCurrent
<1>1. IInv => ProfileIsCurrent
  BY DEF IInv, Current, ReadsAll, ProfileIsCurrent
<1>2. QED
  BY <1>1, IInvHolds, PTL

\* telegram.go, claimProfileRefresh: two granted claims are a day apart, and a
\* refused one is repeated before the last granted one is two days old, for
\* every length of the day and any number of restarts.
THEOREM ClaimsAreADayApart == Spec => DailyRuns
<1> DEFINE Granted == dailyStep = "claim" /\ dailyStep' = "load photos"
                         => claimedAt = Never \/ now - claimedAt >= Day
           Denied == dailyStep = "claim" /\ dailyStep' = "sleeping"
                         => nextTick' - claimedAt <= 2 * Day
<1>1. ASSUME IInv, [Next]_vars
      PROVE  Granted /\ Denied
  <2>1. ASSUME dailyStep = "claim", dailyStep' \in {"load photos", "sleeping"}
        PROVE  Claim
    <3>1. ~Updates
      BY <2>1 DEF Updates, Message, ContextReply, PrivateMessage, PrivateContext, Photo, Leave,
                    Join, jobVars
    <3>2. ~\E r \in Refreshes : Refreshing(r)
      BY <2>1 DEF Refreshing, Query, CloseCursor, ModelAnswers, Fails, Save, Others, jobVars
    <3>3. ~Tick /\ ~Crash /\ ~UNCHANGED vars
      BY <2>1 DEF Tick, Crash, vars, jobVars
    <3>4. DailyJob => Claim
      BY <2>1 DEF DailyJob, LoadPhotos, SaveNote, Mark, LoadTexts, Done, Wake, Describe, RefreshOne
    <3>5. QED
      BY <1>1, <3>1, <3>2, <3>3, <3>4 DEF Next
  <2>2. /\ now \in Nat /\ Day \in Nat /\ claimedAt \in Int /\ claimedAt = refreshedAt
    BY <1>1, Numbers DEF IInv, Timed
  <2>3. Granted
    <3>1. SUFFICES ASSUME dailyStep = "claim", dailyStep' = "load photos"
                   PROVE  claimedAt = Never \/ now - claimedAt >= Day
      OBVIOUS
    <3>2. Claim
      BY <2>1, <3>1
    <3>3. Due \/ MaybeDue
      BY <3>1, <3>2 DEF Claim, Sleep
    <3>4. QED
      BY <2>2, <3>3 DEF Due, MaybeDue
  <2>4. Denied
    <3>1. SUFFICES ASSUME dailyStep = "claim", dailyStep' = "sleeping"
                   PROVE  nextTick' - claimedAt <= 2 * Day
      OBVIOUS
    <3>2. Claim
      BY <2>1, <3>1
    <3>3. claimedAt >= now - Day
      BY <2>2, <3>1, <3>2 DEF Claim, Due
    <3>4. nextTick' = now + Day
      BY <1>1, <3>1, <3>2 DEF Claim, Sleep, IInv, Timed
    <3>5. QED
      BY <2>2, <3>3, <3>4
  <2>5. QED
    BY <2>3, <2>4
<1>2. IInv /\ [Next]_vars => [Granted /\ Denied]_vars
  BY <1>1
<1>3. QED
  BY <1>2, IInvHolds, PTL DEF Spec, DailyRuns

-----------------------------------------------------------------------------
(* The connection.                                                         *)

\* Who has the connection is reading with it, and not waiting for the model.
InUse == connection # Free => connection \in Refreshes /\ refresh[connection].step = "reading"

\* The steps of the refreshes.
LEMMA RefreshingKeepsInUse ==
    ASSUME IInv, InUse, NEW r \in Refreshes, Refreshing(r)
    PROVE  InUse'
<1>1. refresh \in [Refreshes -> RefreshRecords] /\ Free \notin Refreshes
  BY MembersAssumption DEF IInv, Started, Refreshes, Free
<1>2. CASE Query(r)
  <2>1. refresh'[r] = [refresh[r] EXCEPT !.step = "reading", !.read = texts[refresh[r].user]]
    BY <1>1, <1>2 DEF Query
  <2>2. refresh[r] \in RefreshRecords
    BY <1>1
  <2>3. refresh'[r].step = "reading"
    BY <2>1, <2>2 DEF RefreshRecords
  <2>4. QED
    BY <1>2, <2>3 DEF Query, InUse
<1>3. CASE CloseCursor(r)
  BY <1>3 DEF CloseCursor, InUse
<1>4. CASE ModelAnswers(r)
  <2>1. r # connection \/ connection = Free
    BY <1>4 DEF ModelAnswers, InUse
  <2>2. \A s \in Refreshes \ {r} : refresh'[s] = refresh[s]
    BY <1>1, <1>4 DEF ModelAnswers, Step
  <2>3. connection' = connection
    BY <1>4 DEF ModelAnswers
  <2>4. QED
    BY <2>1, <2>2, <2>3 DEF InUse
<1>5. CASE Fails(r)
  <2>1. \A s \in Refreshes \ {r} : refresh'[s] = refresh[s]
    BY <1>1, <1>5 DEF Fails, Ends
  <2>2. connection' = IF connection = r THEN Free ELSE connection
    BY <1>5 DEF Fails
  <2>3. QED
    BY <2>1, <2>2 DEF InUse
<1>6. CASE Save(r)
  BY <1>6 DEF Save, InUse
<1>7. QED
  BY <1>2, <1>3, <1>4, <1>5, <1>6 DEF Refreshing

LEMMA InUseKeeps == IInv /\ InUse /\ [Next]_vars => InUse'
<1> SUFFICES ASSUME IInv, InUse, [Next]_vars PROVE InUse'
  OBVIOUS
<1>1. CASE Updates
  BY <1>1 DEF Updates, Message, ContextReply, PrivateMessage, PrivateContext, Photo,
                  Leave, Join, InUse
<1>2. CASE \E r \in Refreshes : Refreshing(r)
  BY <1>2, RefreshingKeepsInUse
<1>3. CASE DailyJob
  <2>1. CASE UNCHANGED <<connection, refresh>>
    BY <2>1 DEF InUse
  <2>2. ASSUME NEW u \in Users, RefreshOne(u)
        PROVE  InUse'
    <3>1. \A s \in Refreshes \ {Daily} : refresh'[s] = refresh[s]
      BY <2>2 DEF RefreshOne, IInv, Started
    <3>2. connection # Daily /\ connection' = connection
      BY <2>2, MembersAssumption DEF RefreshOne, InUse, Free, Daily
    <3>3. QED
      BY <3>1, <3>2 DEF InUse
  <2>3. QED
    BY <1>3, <2>1, <2>2
       DEF DailyJob, Claim, LoadPhotos, SaveNote, Mark, LoadTexts, Done, Wake, Describe
<1>4. CASE Tick
  BY <1>4 DEF Tick, InUse
<1>5. CASE Crash
  BY <1>5 DEF Crash, InUse
<1>6. CASE UNCHANGED vars
  BY <1>6 DEF vars, InUse
<1>7. QED
  BY <1>1, <1>2, <1>3, <1>4, <1>5, <1>6 DEF Next

\* telegram.go, refreshUserContext: on the one connection that the database is
\* opened with, who has it never waits for it; and while refreshes, any number
\* of them, or the daily job are at work, one of them can go on.
THEOREM NobodyIsStuck == Spec => []NeverStuck
<1>1. Init => InUse
  BY DEF Init, InUse
<1>2. ASSUME IInv, InUse
      PROVE  NeverStuck
  <2>1. connection # Free => CanGoOn(connection)
    BY <1>2 DEF InUse, CanGoOn
  <2>2. Busy => \E r \in Refreshes : CanGoOn(r)
    <3>1. SUFFICES ASSUME NEW r \in Refreshes, refresh[r].step # "idle", connection = Free
                   PROVE  CanGoOn(r)
      BY <1>2, <2>1 DEF Busy, InUse
    <3>2. refresh[r].step \in Steps
      BY <1>2 DEF IInv, Started, RefreshRecords
    <3>3. QED
      BY <3>1, <3>2 DEF Steps, CanGoOn
  <2>3. ASSUME dailyStep # "sleeping", ~Busy
        PROVE  JobCanGoOn
    <3>1. connection = Free /\ refresh[Daily].step = "idle"
      <4>1. Daily \in Refreshes
        BY MembersAssumption DEF Daily, Refreshes
      <4>2. QED
        BY <1>2, <2>3, <4>1 DEF InUse, Busy
    <3>2. /\ dailyStep \in {"claim", "load photos", "photos", "save note", "mark", "texts"}
          /\ dailyStep = "mark" => batch # {}
      BY <1>2, <2>3, Parts DEF JobOK
    <3>3. ASSUME dailyStep = "photos", queue # {}
          PROVE  \E p \in queue, u \in Users : OwnerOf[p] = u
      <4>1. queue \subseteq Photos
        BY <1>2, <3>3, Parts DEF IInv, Photographed, StoreOK
      <4>2. \A p \in queue : OwnerOf[p] \in Users
        BY <4>1, MembersAssumption
      <4>3. QED
        BY <3>3, <4>2
    <3>4. dailyStep = "texts" => queue \subseteq Users
      BY <1>2 DEF IInv, Photographed
    <3>5. QED
      BY <3>1, <3>2, <3>3, <3>4 DEF JobCanGoOn
  <2>4. QED
    BY <2>1, <2>2, <2>3 DEF NeverStuck
<1>3. QED
  BY <1>1, <1>2, IInvHolds, InUseKeeps, PTL DEF Spec

=============================================================================
