------------------------ MODULE AnnouncementsProofs ------------------------
(***************************************************************************)
(* Theorems about the announcement queues, for every number of changes,    *)
(* failures and concurrent /sync commands and for all sizes of the texts.  *)
(***************************************************************************)
EXTENDS Announcements, SetLemmas

-----------------------------------------------------------------------------
(* The operators that choose what is shown next.                           *)

\* What a digest reads is the old part of the queue.
LEMMA OldestIsOldPart ==
    ASSUME NEW S \in SUBSET Changes, NEW k \in Nat
    PROVE  /\ Oldest(k, S) \subseteq S
           /\ \A n \in Oldest(k, S), m \in S \ Oldest(k, S) : n < m
<1> DEFINE Older(c) == {d \in S : d < c}
<1>1. IsFiniteSet(S)
  BY AnnouncementsAssumption, FS_BoundedSetOfNaturals, S \in SUBSET Nat,
     \A x \in S : x <= MaxChanges
  DEF Changes
<1>2. ASSUME NEW n \in Oldest(k, S), NEW m \in S \ Oldest(k, S), m < n
      PROVE  FALSE
  <2>1. Older(m) \subseteq Older(n) /\ Older(n) \subseteq S
    <3>1. n \in Int /\ m \in Int /\ \A d \in S : d \in Int
      BY DEF Changes, Oldest
    <3>2. \A d \in S : d < m => d < n
      BY <1>2, <3>1
    <3>3. QED
      BY <3>2
  <2>2. IsFiniteSet(Older(n))
    BY <1>1, <2>1, FS_Subset
  <2>3. /\ Cardinality(Older(m)) <= Cardinality(Older(n))
        /\ Cardinality(Older(m)) \in Nat /\ Cardinality(Older(n)) \in Nat
    BY <2>1, <2>2, FS_Subset, FS_CardinalityType
  <2>4. Cardinality(Older(n)) < k /\ ~(Cardinality(Older(m)) < k)
    BY DEF Oldest
  <2>5. QED
    BY <2>3, <2>4
<1>3. QED
  BY <1>2 DEF Oldest, Changes

\* The recursion of the sum is unfolded by hand: a single line has its own size.
LEMMA SizeOfOne ==
    ASSUME NEW n \in Changes
    PROVE  TotalSize({n}) = Size[n]
<1> DEFINE Sums(f) == [s \in SUBSET {n} |->
                          IF s = {} THEN 0
                          ELSE Size[CHOOSE x \in s : TRUE] + f[s \ {CHOOSE x \in s : TRUE}]]
           sum == CHOOSE f : f = Sums(f)
           one == [s \in SUBSET {n} |-> IF s = {} THEN 0 ELSE Size[n]]
<1>1. TotalSize({n}) = sum[{n}]
  BY DEF TotalSize, MapThenSumSet, MapThenFoldSet
<1>2. SUBSET {n} = {{}, {n}}
  OBVIOUS
<1>3. one = Sums(one)
  BY <1>2, AnnouncementsAssumption
<1>4. sum = Sums(sum)
  BY <1>3
<1>5. (CHOOSE x \in {n} : TRUE) = n
  OBVIOUS
<1>6. sum[{}] = 0
  BY <1>4
<1>7. sum[{n}] = Size[n] + sum[{}]
  BY <1>4, <1>5
<1>8. QED
  BY <1>1, <1>6, <1>7, AnnouncementsAssumption

\* There is an oldest and a newest of some changes.
LEMMA Extremes ==
    ASSUME NEW T \in SUBSET Changes, T # {}
    PROVE  /\ \E x \in T : \A y \in T : x <= y
           /\ \E x \in T : \A y \in T : y <= x
<1>1. MaxChanges \in Nat /\ T \in SUBSET Nat /\ T \in SUBSET (0 .. MaxChanges)
  BY AnnouncementsAssumption DEF Changes
<1>2. QED
  BY <1>1, LeastOf, GreatestOf

\* A part is a nonempty old part of what is left: every line fits in a part, so
\* there is a longest prefix that fits.
LEMMA NextPartIsOldPart ==
    ASSUME NEW S \in SUBSET Changes, S # {}
    PROVE  /\ NextPart(S) \subseteq S /\ NextPart(S) # {}
           /\ \A n \in NextPart(S), m \in S \ NextPart(S) : n < m
<1> DEFINE Until(n) == {c \in S : c <= n}
           fits == {n \in S : TotalSize(Until(n)) <= PartLimit}
           fitting == {P \in Prefixes(S) : TotalSize(P) <= PartLimit}
<1>1. S \subseteq Int
  BY DEF Changes
<1>2. PICK first \in S : \A y \in S : first <= y
  BY Extremes
<1>3. Until(first) = {first}
  <2>1. \A c \in S : c <= first <=> c = first
    BY <1>1, <1>2
  <2>2. QED
    BY <2>1
<1>4. first \in fits
  <2>1. TotalSize({first}) = Size[first] /\ Size[first] \in 1 .. PartLimit
    BY SizeOfOne, AnnouncementsAssumption
  <2>2. QED
    BY <1>3, <2>1, AnnouncementsAssumption
<1>5. PICK last \in fits : \A y \in fits : y <= last
  BY <1>4, Extremes, fits \in SUBSET Changes
<1>6. Until(last) \in fitting
  <2>1. Until(last) \in Prefixes(S)
    BY DEF Prefixes
  <2>2. QED
    BY <1>5, <2>1
<1>7. \A Q \in fitting : Q \subseteq Until(last)
  <2>1. SUFFICES ASSUME NEW n \in S, TotalSize(Until(n)) <= PartLimit
                 PROVE  Until(n) \subseteq Until(last)
    BY DEF Prefixes
  <2>2. n <= last
    BY <1>5, <2>1
  <2>3. \A c \in S : c <= n => c <= last
    BY <1>1, <2>2
  <2>4. QED
    BY <2>3
<1>8. NextPart(S) \in fitting
  BY <1>6, <1>7 DEF NextPart
<1>9. PICK n \in S : NextPart(S) = Until(n)
  BY <1>8 DEF Prefixes
<1>10. \A c, d \in S : c <= n /\ ~(d <= n) => c < d
  BY <1>1
<1>11. Until(n) \subseteq S /\ Until(n) # {} /\ \A c \in Until(n), d \in S \ Until(n) : c < d
  <2>1. n \in Until(n)
    BY <1>1
  <2>2. QED
    BY <1>10, <2>1
<1>12. QED
  BY <1>9, <1>11

-----------------------------------------------------------------------------
(* The strengthening behind the theorems.                                  *)

\* What s has sent of the changes that it has read.
Sent(s) == captured[s] \ rest[s]

\* What a /sync has read is the old part of the queue for as long as it runs,
\* and it sends the older part of that first.
Reading ==
    \A s \in Syncers :
        /\ rest[s] \subseteq captured[s]
        /\ captured[s] \subseteq groupQueue
        /\ \A n \in captured[s], m \in groupQueue \ captured[s] : n < m
        /\ \A n \in Sent(s), m \in rest[s] : n < m

\* A /sync has nothing in hand before and after it runs, and everything it
\* has sent was shown.
Sending ==
    \A s \in Syncers :
        /\ pc[s] = "idle" => captured[s] = {}
        /\ pc[s] = "previewing" => rest[s] = captured[s]
        /\ pc[s] = "publishing" => rest[s] # {}
        /\ pc[s] = "acknowledging" => rest[s] = {}
        /\ \A n \in Sent(s) : published[n] > 0

\* Only logged changes are shown.  Without trouble a shown change that is
\* still in the queue was sent by a /sync that is about to delete it.
Showing ==
    /\ \A n \in Changes : published[n] > 0 => n <= logged
    /\ ~troubled =>
          \A n \in groupQueue : published[n] > 0 => \E s \in Syncers : n \in Sent(s)

\* The watcher's digest is the old part of the administrator's queue.
Telling ==
    /\ digest \subseteq adminQueue
    /\ \A n \in digest, m \in adminQueue \ digest : n < m
    /\ watcherPc = "waiting" => digest = {}
    /\ watcherPc = "acknowledging" => digest \subseteq told

IInv ==
    /\ TypeOK
    /\ Reading /\ Sending /\ Showing /\ Telling
    /\ ShownInOrder
    /\ NormallyOnce

-----------------------------------------------------------------------------
(* Preservation.                                                           *)

\* A delivery that is reported was shown.
LEMMA ReportedIsShown ==
    ASSUME NEW d \in Deliveries
    PROVE  d[1] \in 0 .. 2 /\ (d[2] => d[1] > 0)
<1>1. \/ d = <<1, TRUE>> \/ d = <<2, TRUE>>
      \/ d = <<0, FALSE>> \/ d = <<1, FALSE>> \/ d = <<2, FALSE>>
  BY Zenon DEF Deliveries
<1>2. \A n \in 0 .. 2, t \in BOOLEAN : d = <<n, t>> => d[1] = n
  OBVIOUS
<1>3. d = <<0, FALSE>> => ~d[2]
  OBVIOUS
<1>4. 0 \in 0 .. 2 /\ 1 \in 0 .. 2 /\ 2 \in 0 .. 2 /\ 1 > 0 /\ 2 > 0
  OBVIOUS
<1>5. TRUE \in BOOLEAN /\ FALSE \in BOOLEAN
  OBVIOUS
<1>6. QED
  BY <1>1, <1>2, <1>3, <1>4, <1>5, Zenon

LEMMA InitIInv == Init => IInv
<1> SUFFICES ASSUME Init PROVE IInv
  OBVIOUS
<1> USE AnnouncementsAssumption DEF Init
<1>1. TypeOK
  <2>1. 0 \in 0 .. MaxChanges /\ 0 \in 0 .. MaxCrashes /\ published \in [Changes -> 0 .. 2]
    OBVIOUS
  <2>2. QED
    BY <2>1 DEF TypeOK
<1>2. Reading /\ Sending /\ Telling
  BY DEF Reading, Sending, Sent, Telling
<1>3. Showing /\ ShownInOrder /\ NormallyOnce
  BY DEF Showing, ShownInOrder, NormallyOnce
<1>4. QED
  BY <1>1, <1>2, <1>3 DEF IInv

LEMMA LogChangeIInv ==
    ASSUME IInv, LogChange
    PROVE  IInv'
<1> DEFINE new == logged + 1
<1>1. /\ MaxChanges \in Nat /\ logged \in Nat /\ logged' = new /\ new \in Changes
      /\ new \in 0 .. MaxChanges
      /\ 1 .. logged \subseteq 1 .. new /\ new \in 1 .. new /\ new \notin 1 .. logged
  BY AnnouncementsAssumption DEF LogChange, IInv, TypeOK, Changes
<1>2. \A n \in 1 .. logged : n < new /\ n \in Int
  BY <1>1
<1>3. /\ groupQueue \subseteq groupQueue' /\ groupQueue' \subseteq groupQueue \cup {new}
      /\ adminQueue \subseteq adminQueue' /\ adminQueue' \subseteq adminQueue \cup {new}
      /\ ~(new \in groupQueue' /\ new \in adminQueue')
  BY <1>1 DEF LogChange, IInv, TypeOK
<1>4. UNCHANGED <<mutex, pc, captured, rest, watcherPc, digest, crashes, published, told, troubled>>
  BY DEF LogChange, syncVars, watcherVars, historyVars
<1>5. /\ groupQueue \subseteq 1 .. logged /\ adminQueue \subseteq 1 .. logged
      /\ digest \subseteq 1 .. logged /\ told \subseteq 1 .. logged
      /\ \A s \in Syncers : captured[s] \subseteq 1 .. logged
  BY DEF IInv, TypeOK
<1>6. \A n \in Changes : published[n] > 0 => n <= logged
  BY DEF IInv, Showing
<1> HIDE DEF new
<1>7. TypeOK'
  BY <1>1, <1>3, <1>4 DEF IInv, TypeOK
<1>8. Reading'
  BY <1>2, <1>3, <1>4, <1>5 DEF IInv, Reading, Sent
<1>9. Sending'
  BY <1>4 DEF IInv, Sending, Sent
<1>10. published[new] <= 0 /\ \A n \in Changes : published[n] > 0 => n < new
  BY <1>1, <1>2, <1>6 DEF IInv, TypeOK, Changes
<1>11. Showing'
  BY <1>1, <1>3, <1>4, <1>10 DEF IInv, Showing, Sent, Changes
<1>12. Telling'
  BY <1>2, <1>3, <1>4, <1>5 DEF IInv, Telling
<1>13. ShownInOrder'
  BY <1>1, <1>2, <1>3, <1>4, <1>5, <1>10 DEF IInv, ShownInOrder, Changes
<1>14. NormallyOnce'
  BY <1>4 DEF IInv, NormallyOnce
<1>15. QED
  BY <1>7, <1>8, <1>9, <1>11, <1>12, <1>13, <1>14 DEF IInv

LEMMA StartIInv ==
    ASSUME IInv, NEW s \in Syncers, NEW preview \in BOOLEAN, Start(s, preview)
    PROVE  IInv'
<1>1. TypeOK'
  BY AnnouncementsAssumption
  DEF Start, IInv, TypeOK, Changes, queueVars, watcherVars, historyVars
<1>2. Reading'
  BY AnnouncementsAssumption
  DEF Start, IInv, TypeOK, Reading, Sending, Sent, Changes, queueVars, watcherVars,
      historyVars
<1>3. Sending'
  BY AnnouncementsAssumption
  DEF Start, IInv, TypeOK, Reading, Sending, Sent, Changes, queueVars, watcherVars,
      historyVars
<1>4. Showing'
  BY AnnouncementsAssumption
  DEF Start, IInv, TypeOK, Reading, Sending, Showing, NormallyOnce, Sent, Changes,
      queueVars, watcherVars, historyVars
<1>5. Telling'
  BY AnnouncementsAssumption
  DEF Start, IInv, TypeOK, Telling, Changes, queueVars, watcherVars, historyVars
<1>6. ShownInOrder'
  BY AnnouncementsAssumption
  DEF Start, IInv, TypeOK, Reading, Sending, Showing, ShownInOrder, Telling, Sent,
      Changes, queueVars, watcherVars, historyVars
<1>7. NormallyOnce'
  BY AnnouncementsAssumption
  DEF Start, IInv, TypeOK, Reading, Showing, NormallyOnce, Sent, Changes, queueVars,
      watcherVars, historyVars
<1>8. QED
  BY <1>1, <1>2, <1>3, <1>4, <1>5, <1>6, <1>7 DEF IInv

LEMMA PreviewIInv ==
    ASSUME IInv, NEW s \in Syncers, Preview(s)
    PROVE  IInv'
<1>1. TypeOK'
  BY AnnouncementsAssumption
  DEF Preview, Return, IInv, TypeOK, Changes, queueVars, watcherVars, historyVars
<1>2. Reading'
  BY AnnouncementsAssumption
  DEF Preview, Return, IInv, TypeOK, Reading, Sending, Sent, Changes, queueVars,
      watcherVars, historyVars
<1>3. Sending'
  BY AnnouncementsAssumption
  DEF Preview, Return, IInv, TypeOK, Reading, Sending, Sent, Changes, queueVars,
      watcherVars, historyVars
<1>4. Showing'
  BY AnnouncementsAssumption
  DEF Preview, Return, IInv, TypeOK, Reading, Sending, Showing, NormallyOnce, Sent,
      Changes, queueVars, watcherVars, historyVars
<1>5. Telling'
  BY AnnouncementsAssumption
  DEF Preview, Return, IInv, TypeOK, Telling, Changes, queueVars, watcherVars,
      historyVars
<1>6. ShownInOrder'
  BY AnnouncementsAssumption
  DEF Preview, Return, IInv, TypeOK, Reading, Sending, Showing, ShownInOrder, Telling,
      Sent, Changes, queueVars, watcherVars, historyVars
<1>7. NormallyOnce'
  BY AnnouncementsAssumption
  DEF Preview, Return, IInv, TypeOK, Reading, Showing, NormallyOnce, Sent, Changes,
      queueVars, watcherVars, historyVars
<1>8. QED
  BY <1>1, <1>2, <1>3, <1>4, <1>5, <1>6, <1>7 DEF IInv

LEMMA PublishPartIInv ==
    ASSUME IInv, NEW s \in Syncers, NEW delivery \in Deliveries, PublishPart(s, delivery)
    PROVE  IInv'
<1> DEFINE part == NextPart(rest[s])
<1>1. /\ rest[s] \in SUBSET Changes /\ rest[s] # {}
      /\ logged \in Nat /\ 1 .. logged \subseteq Changes
  BY AnnouncementsAssumption DEF PublishPart, IInv, TypeOK, Sending, Changes
<1>2. /\ part \subseteq rest[s] /\ part # {}
      /\ \A n \in part, m \in rest[s] \ part : n < m
  BY <1>1, NextPartIsOldPart
<1>3. /\ delivery[1] \in 0 .. 2
      /\ delivery[2] => delivery[1] > 0
      /\ delivery = Normal => delivery[1] = 1
  <2>1. delivery = Normal => delivery[1] = 1
    BY DEF Normal
  <2>2. QED
    BY <2>1, ReportedIsShown
<1>4. /\ published' \in [Changes -> 0 .. 2]
      /\ \A n \in Changes : n \notin part => published'[n] = published[n]
      /\ \A n \in part : /\ delivery[1] = 0 => published'[n] = published[n]
                         /\ delivery[1] > 0 => published'[n] > 0
                         /\ published[n] = 0 /\ delivery[1] = 1 => published'[n] = 1
      /\ \A n \in Changes : published[n] > 0 => published'[n] > 0
  <2>1. \A k \in 0 .. 4 : Min({2, k}) = IF k < 2 THEN k ELSE 2
    BY DEF Min
  <2>2. published' = [n \in Changes |->
            IF n \in part THEN Min({2, published[n] + delivery[1]}) ELSE published[n]]
    BY DEF PublishPart
  <2>3. \A n \in Changes : published[n] + delivery[1] \in 0 .. 4 /\ published[n] \in 0 .. 2
    BY <1>3 DEF IInv, TypeOK
  <2>4. \A n \in part : n \in Changes
    BY <1>1, <1>2
  <2>5. QED
    BY <1>3, <2>1, <2>2, <2>3, <2>4
<1> HIDE DEF part
<1>5. UNCHANGED <<queueVars, watcherVars, crashes, told>>
  BY DEF PublishPart
<1>6. /\ ~troubled' => ~troubled /\ delivery[1] = 1
      /\ ~delivery[2] => troubled'
      /\ troubled' \in BOOLEAN
  <2>1. delivery = Normal => delivery[2]
    BY DEF Normal
  <2>2. troubled' = (troubled \/ delivery # Normal)
    BY DEF PublishPart
  <2>3. QED
    BY <1>3, <2>1, <2>2, Zenon
\* What is older than the part and still in the queue was read with it, and has been sent.
<1>7. \A n \in part, m \in groupQueue : m < n => m \in part \/ published[m] > 0
  <2>1. SUFFICES ASSUME NEW n \in part, NEW m \in groupQueue, m < n, m \notin part
                 PROVE  published[m] > 0
    OBVIOUS
  <2>2. n \in captured[s] /\ n \in rest[s] /\ n \in Int /\ m \in Int
    BY <1>1, <1>2 DEF IInv, Reading, TypeOK, Changes
  <2>3. m \in captured[s]
    BY <2>1, <2>2 DEF IInv, Reading
  <2>4. m \notin rest[s]
    BY <1>2, <2>1, <2>2
  <2>5. QED
    BY <2>3, <2>4 DEF IInv, Sending, Sent
<1>8. ShownInOrder'
  <2>1. ASSUME NEW m \in groupQueue, NEW n \in Changes, m < n, published'[n] > 0
        PROVE  published'[m] > 0
    <3>1. m \in Changes /\ m \notin part => published'[m] = published[m]
      BY <1>1, <1>4 DEF IInv, TypeOK
    <3>2. CASE published[n] > 0
      BY <1>1, <1>4, <2>1, <3>2 DEF IInv, TypeOK, ShownInOrder
    <3>3. CASE n \in part /\ delivery[1] > 0
      BY <1>1, <1>4, <1>7, <2>1, <3>3 DEF IInv, TypeOK
    <3>4. QED
      BY <1>3, <1>4, <2>1, <3>2, <3>3
  <2>2. QED
    BY <1>5, <2>1 DEF IInv, ShownInOrder, queueVars
<1>9. \A n \in Changes : published'[n] > 0 => n <= logged'
  <2>1. \A n \in part : n <= logged
    BY <1>1, <1>2 DEF IInv, TypeOK
  <2>2. QED
    BY <1>4, <1>5, <2>1 DEF IInv, Showing, queueVars
<1>10. Telling'
  BY <1>5 DEF IInv, Telling, queueVars, watcherVars
<1>11. NormallyOnce'
  <2>1. SUFFICES ASSUME ~troubled', NEW n \in Changes PROVE published'[n] <= 1
    BY DEF NormallyOnce
  <2>2. CASE n \in part
    <3>1. n \notin Sent(s) /\ n \in captured[s] /\ n \in groupQueue
      BY <1>2, <2>2 DEF Sent, IInv, Reading
    <3>2. \A q \in Syncers : q # s => Sent(q) = {}
      BY DEF PublishPart, IInv, TypeOK, Sending, Sent
    <3>3. published[n] = 0
      BY <1>6, <2>1, <3>1, <3>2 DEF IInv, TypeOK, Showing
    <3>4. QED
      BY <1>4, <1>6, <2>1, <2>2, <3>3
  <2>3. CASE n \notin part
    BY <1>4, <1>6, <2>1, <2>3 DEF IInv, NormallyOnce
  <2>4. QED
    BY <2>2, <2>3
<1>12. CASE delivery[2]
  <2>1. /\ rest' = [rest EXCEPT ![s] = @ \ part]
        /\ pc' = [pc EXCEPT ![s] = IF rest'[s] = {} THEN "acknowledging" ELSE @]
        /\ UNCHANGED <<mutex, captured>>
    BY <1>12 DEF PublishPart, part
  <2>2. rest'[s] = rest[s] \ part /\ captured'[s] = captured[s]
    BY <2>1 DEF IInv, TypeOK
  <2>3. \A q \in Syncers : q # s => /\ rest'[q] = rest[q] /\ captured'[q] = captured[q]
                                   /\ pc'[q] = pc[q]
    BY <2>1 DEF IInv, TypeOK
  <2>4. pc'[s] = IF rest'[s] = {} THEN "acknowledging" ELSE "publishing"
    BY <2>1 DEF PublishPart, IInv, TypeOK
  <2>5. \A n : n \in Sent(s)' <=> n \in Sent(s) \/ n \in part
    BY <1>2, <2>2 DEF Sent, IInv, Reading
  <2>6. \A q \in Syncers : q # s => Sent(q)' = Sent(q)
    BY <2>3 DEF Sent
  <2>7. TypeOK'
    BY <1>4, <1>5, <1>6, <2>1 DEF PublishPart, IInv, TypeOK, queueVars, watcherVars
  <2>8. Reading'
    <3>1. ASSUME NEW n \in Sent(s)', NEW m \in rest'[s] PROVE n < m
      BY <1>2, <2>2, <2>5 DEF IInv, Reading
    <3>2. groupQueue' = groupQueue
      BY <1>5 DEF queueVars
    <3>3. ASSUME NEW q \in Syncers
          PROVE  /\ rest'[q] \subseteq captured'[q]
                 /\ captured'[q] \subseteq groupQueue'
                 /\ \A n \in captured'[q], m \in groupQueue' \ captured'[q] : n < m
                 /\ \A n \in Sent(q)', m \in rest'[q] : n < m
      <4>1. CASE q = s
        BY <2>2, <3>1, <3>2, <4>1 DEF IInv, Reading
      <4>2. CASE q # s
        BY <2>3, <2>6, <3>2, <4>2 DEF IInv, Reading
      <4>3. QED
        BY <4>1, <4>2
    <3>4. QED
      BY <3>3 DEF Reading
  <2>9. Sending'
    <3>1. \A q \in Syncers : \A n \in Sent(q) : n \in Changes /\ published[n] > 0
      BY <1>1 DEF IInv, TypeOK, Sending, Sent
    <3>2. \A q \in Syncers : \A n \in Sent(q)' : published'[n] > 0
      BY <1>3, <1>4, <1>12, <2>5, <2>6, <3>1
    <3>3. QED
      BY <2>3, <2>4, <3>2 DEF IInv, Sending
  <2>10. Showing'
    <3>1. ASSUME ~troubled', NEW n \in groupQueue', published'[n] > 0
          PROVE  \E q \in Syncers : n \in Sent(q)'
      <4>1. n \in groupQueue /\ n \in Changes
        BY <1>1, <1>5 DEF IInv, TypeOK, queueVars
      <4>2. CASE n \in part
        BY <2>5, <4>2
      <4>3. CASE n \notin part
        <5>1. PICK q \in Syncers : n \in Sent(q)
          BY <1>4, <1>6, <3>1, <4>1, <4>3 DEF IInv, Showing
        <5>2. n \in Sent(q)'
          BY <2>5, <2>6, <5>1
        <5>3. QED
          BY <5>2
      <4>4. QED
        BY <4>2, <4>3
    <3>2. QED
      BY <1>9, <3>1 DEF Showing
  <2>11. QED
    BY <1>8, <1>10, <1>11, <2>7, <2>8, <2>9, <2>10 DEF IInv
<1>13. CASE ~delivery[2]
  <2>1. /\ mutex' = NoSyncer
        /\ pc' = [pc EXCEPT ![s] = "idle"]
        /\ captured' = [captured EXCEPT ![s] = {}]
        /\ rest' = [rest EXCEPT ![s] = {}]
    BY <1>13 DEF PublishPart, Return
  <2>2. TypeOK'
    BY <1>4, <1>5, <1>6, <2>1, AnnouncementsAssumption
    DEF PublishPart, IInv, TypeOK, queueVars, watcherVars
  <2>3. \A q \in Syncers : pc'[q] = "idle" /\ captured'[q] = {} /\ rest'[q] = {}
    BY <2>1 DEF PublishPart, IInv, TypeOK, Sending, Reading
  <2>4. Reading' /\ Sending'
    BY <2>3 DEF Reading, Sending, Sent
  <2>5. Showing'
    BY <1>6, <1>9, <1>13 DEF Showing
  <2>6. QED
    BY <1>8, <1>10, <1>11, <2>2, <2>4, <2>5 DEF IInv
<1>14. QED
  BY <1>12, <1>13

LEMMA AcknowledgeIInv ==
    ASSUME IInv, NEW s \in Syncers, NEW succeeds \in BOOLEAN,
           Acknowledge(s, succeeds)
    PROVE  IInv'
<1>1. TypeOK'
  BY AnnouncementsAssumption
  DEF Acknowledge, Return, IInv, TypeOK, Changes, queueVars, watcherVars, historyVars
<1>2. Reading'
  BY AnnouncementsAssumption
  DEF Acknowledge, Return, IInv, TypeOK, Reading, Sending, Sent, Changes, queueVars,
      watcherVars, historyVars
<1>3. Sending'
  BY AnnouncementsAssumption
  DEF Acknowledge, Return, IInv, TypeOK, Reading, Sending, Sent, Changes, queueVars,
      watcherVars, historyVars
<1>4. Showing'
  BY AnnouncementsAssumption
  DEF Acknowledge, Return, IInv, TypeOK, Reading, Sending, Showing, NormallyOnce,
      Sent, Changes, queueVars, watcherVars, historyVars
<1>5. Telling'
  BY AnnouncementsAssumption
  DEF Acknowledge, Return, IInv, TypeOK, Telling, Changes, queueVars, watcherVars,
      historyVars
<1>6. ShownInOrder'
  BY AnnouncementsAssumption
  DEF Acknowledge, Return, IInv, TypeOK, Reading, Sending, Showing, ShownInOrder,
      Telling, Sent, Changes, queueVars, watcherVars, historyVars
<1>7. NormallyOnce'
  BY AnnouncementsAssumption
  DEF Acknowledge, Return, IInv, TypeOK, Reading, Showing, NormallyOnce, Sent,
      Changes, queueVars, watcherVars, historyVars
<1>8. QED
  BY <1>1, <1>2, <1>3, <1>4, <1>5, <1>6, <1>7 DEF IInv

LEMMA WatcherReadsIInv ==
    ASSUME IInv, WatcherReads
    PROVE  IInv'
<1> adminQueue \in SUBSET Changes /\ DigestSize \in Nat
  BY AnnouncementsAssumption DEF IInv, TypeOK, Changes
<1>1. TypeOK'
  BY OldestIsOldPart
  DEF WatcherReads, IInv, TypeOK, Changes, queueVars, syncVars, historyVars
<1>2. Reading'
  BY AnnouncementsAssumption
  DEF WatcherReads, IInv, TypeOK, Reading, Sending, Sent, Changes, queueVars,
      syncVars, historyVars
<1>3. Sending'
  BY AnnouncementsAssumption
  DEF WatcherReads, IInv, TypeOK, Reading, Sending, Sent, Changes, queueVars,
      syncVars, historyVars
<1>4. Showing'
  BY AnnouncementsAssumption
  DEF WatcherReads, IInv, TypeOK, Reading, Sending, Showing, NormallyOnce, Sent,
      Changes, queueVars, syncVars, historyVars
<1>5. Telling'
  BY OldestIsOldPart
  DEF WatcherReads, IInv, TypeOK, Telling, Changes, queueVars, syncVars, historyVars
<1>6. ShownInOrder'
  BY AnnouncementsAssumption
  DEF WatcherReads, IInv, TypeOK, Reading, Sending, Showing, ShownInOrder, Telling,
      Sent, Changes, queueVars, syncVars, historyVars
<1>7. NormallyOnce'
  BY AnnouncementsAssumption
  DEF WatcherReads, IInv, TypeOK, Reading, Showing, NormallyOnce, Sent, Changes,
      queueVars, syncVars, historyVars
<1>8. QED
  BY <1>1, <1>2, <1>3, <1>4, <1>5, <1>6, <1>7 DEF IInv

LEMMA WatcherTellsIInv ==
    ASSUME IInv, NEW delivery \in Deliveries, WatcherTells(delivery)
    PROVE  IInv'
<1>1. TypeOK'
  BY AnnouncementsAssumption
  DEF WatcherTells, IInv, TypeOK, Changes, queueVars, syncVars, historyVars
<1>2. Reading'
  BY AnnouncementsAssumption
  DEF WatcherTells, IInv, TypeOK, Reading, Sending, Sent, Changes, queueVars,
      syncVars, historyVars
<1>3. Sending'
  BY AnnouncementsAssumption
  DEF WatcherTells, IInv, TypeOK, Reading, Sending, Sent, Changes, queueVars,
      syncVars, historyVars
<1>4. Showing'
  BY AnnouncementsAssumption
  DEF WatcherTells, IInv, TypeOK, Reading, Sending, Showing, NormallyOnce, Sent,
      Changes, queueVars, syncVars, historyVars
<1>5. Telling'
  <2>1. CASE delivery[2]
    <3>1. delivery[1] > 0
      BY <2>1, ReportedIsShown
    <3>2. QED
      BY <2>1, <3>1 DEF WatcherTells, IInv, Telling, queueVars
  <2>2. CASE ~delivery[2]
    BY <2>2 DEF WatcherTells, IInv, Telling, queueVars
  <2>3. QED
    BY <2>1, <2>2
<1>6. ShownInOrder'
  BY AnnouncementsAssumption
  DEF WatcherTells, IInv, TypeOK, Reading, Sending, Showing, ShownInOrder, Telling,
      Sent, Changes, queueVars, syncVars, historyVars
<1>7. NormallyOnce'
  BY AnnouncementsAssumption
  DEF WatcherTells, IInv, TypeOK, Reading, Showing, NormallyOnce, Sent, Changes,
      queueVars, syncVars, historyVars
<1>8. QED
  BY <1>1, <1>2, <1>3, <1>4, <1>5, <1>6, <1>7 DEF IInv

LEMMA WatcherAcknowledgesIInv ==
    ASSUME IInv, NEW succeeds \in BOOLEAN, WatcherAcknowledges(succeeds)
    PROVE  IInv'
<1>1. TypeOK'
  BY AnnouncementsAssumption
  DEF WatcherAcknowledges, IInv, TypeOK, Changes, queueVars, syncVars, historyVars
<1>2. Reading'
  BY AnnouncementsAssumption
  DEF WatcherAcknowledges, IInv, TypeOK, Reading, Sending, Sent, Changes, queueVars,
      syncVars, historyVars
<1>3. Sending'
  BY AnnouncementsAssumption
  DEF WatcherAcknowledges, IInv, TypeOK, Reading, Sending, Sent, Changes, queueVars,
      syncVars, historyVars
<1>4. Showing'
  BY AnnouncementsAssumption
  DEF WatcherAcknowledges, IInv, TypeOK, Reading, Sending, Showing, NormallyOnce,
      Sent, Changes, queueVars, syncVars, historyVars
<1>5. Telling'
  BY AnnouncementsAssumption
  DEF WatcherAcknowledges, IInv, TypeOK, Telling, Changes, queueVars, syncVars,
      historyVars
<1>6. ShownInOrder'
  BY AnnouncementsAssumption
  DEF WatcherAcknowledges, IInv, TypeOK, Reading, Sending, Showing, ShownInOrder,
      Telling, Sent, Changes, queueVars, syncVars, historyVars
<1>7. NormallyOnce'
  BY AnnouncementsAssumption
  DEF WatcherAcknowledges, IInv, TypeOK, Reading, Showing, NormallyOnce, Sent,
      Changes, queueVars, syncVars, historyVars
<1>8. QED
  BY <1>1, <1>2, <1>3, <1>4, <1>5, <1>6, <1>7 DEF IInv

LEMMA CrashIInv ==
    ASSUME IInv, Crash
    PROVE  IInv'
<1>1. TypeOK'
  BY AnnouncementsAssumption
  DEF Crash, IInv, TypeOK, Changes, queueVars, syncVars, historyVars
<1>2. Reading'
  BY AnnouncementsAssumption
  DEF Crash, IInv, TypeOK, Reading, Sending, Sent, Changes, queueVars, syncVars,
      historyVars
<1>3. Sending'
  BY AnnouncementsAssumption
  DEF Crash, IInv, TypeOK, Reading, Sending, Sent, Changes, queueVars, syncVars,
      historyVars
<1>4. Showing'
  BY AnnouncementsAssumption
  DEF Crash, IInv, TypeOK, Reading, Sending, Showing, NormallyOnce, Sent, Changes,
      queueVars, syncVars, historyVars
<1>5. Telling'
  BY AnnouncementsAssumption
  DEF Crash, IInv, TypeOK, Telling, Changes, queueVars, syncVars, historyVars
<1>6. ShownInOrder'
  BY AnnouncementsAssumption
  DEF Crash, IInv, TypeOK, Reading, Sending, Showing, ShownInOrder, Telling, Sent,
      Changes, queueVars, syncVars, historyVars
<1>7. NormallyOnce'
  BY AnnouncementsAssumption
  DEF Crash, IInv, TypeOK, Reading, Showing, NormallyOnce, Sent, Changes, queueVars,
      syncVars, historyVars
<1>8. QED
  BY <1>1, <1>2, <1>3, <1>4, <1>5, <1>6, <1>7 DEF IInv

LEMMA NextIInv ==
    ASSUME IInv, [Next]_vars
    PROVE  IInv'
<1>1. ASSUME NEW s \in Syncers, SyncStep(s) PROVE IInv'
  BY <1>1, StartIInv, PreviewIInv, PublishPartIInv, AcknowledgeIInv DEF SyncStep
<1>2. CASE WatcherStep
  BY <1>2, WatcherReadsIInv, WatcherTellsIInv, WatcherAcknowledgesIInv DEF WatcherStep
<1>3. CASE UNCHANGED vars
  BY <1>3
  DEF IInv, TypeOK, Reading, Sending, Sent, Showing, Telling, ShownInOrder,
      NormallyOnce, vars, queueVars, syncVars, watcherVars, historyVars
<1>4. QED
  BY <1>1, <1>2, <1>3, LogChangeIInv, CrashIInv DEF Next

-----------------------------------------------------------------------------
(* The theorems.                                                           *)

\* The inductive invariant holds in every reachable state.
THEOREM IInvHolds == Spec => []IInv
<1>1. Init => IInv
  BY InitIInv
<1>2. IInv /\ [Next]_vars => IInv'
  BY NextIInv
<1>3. QED
  BY <1>1, <1>2, PTL DEF Spec

\* docs/architecture.md: "prevents concurrent sync calls from normally
\* duplicating a digest".  For any number of concurrent /sync commands: while
\* nothing fails, the group is shown no change twice.
THEOREM PublishedNormallyOnce == Spec => []NormallyOnce
<1>1. IInv => NormallyOnce
  BY DEF IInv
<1>2. QED
  BY <1>1, IInvHolds, PTL

\* Neither the group nor the administrator is shown a change while an older
\* one that is still queued was never shown, whatever has failed before.
THEOREM QueuesAreShownInOrder == Spec => []QueuesInv
<1>1. IInv => QueuesInv
  BY DEF IInv, QueuesInv
<1>2. QED
  BY <1>1, IInvHolds, PTL

\* docs/architecture.md: /sync "deletes the pending records only after
\* Telegram confirms delivery".  No step takes a change out of a queue that
\* was not shown to those it was queued for.
THEOREM NothingGoneUnshown == Spec => GoneOnlyIfShown
<1> DEFINE Shown == /\ \A n \in groupQueue \ groupQueue' : published[n] > 0
                    /\ \A n \in adminQueue \ adminQueue' : n \in told
<1>1. ASSUME IInv, [Next]_vars PROVE Shown
  <2>1. CASE LogChange
    BY <2>1 DEF LogChange
  <2>2. ASSUME NEW s \in Syncers, NEW succeeds \in BOOLEAN, Acknowledge(s, succeeds)
        PROVE  Shown
    <3>1. \A n \in captured[s] : published[n] > 0
      BY <1>1, <2>2 DEF Acknowledge, IInv, Sending, Sent
    <3>2. groupQueue \ groupQueue' \subseteq captured[s] /\ adminQueue' = adminQueue
      BY <2>2 DEF Acknowledge
    <3>3. QED
      BY <3>1, <3>2
  <2>3. ASSUME NEW succeeds \in BOOLEAN, WatcherAcknowledges(succeeds) PROVE Shown
    BY <1>1, <2>3 DEF WatcherAcknowledges, IInv, Telling
  <2>4. CASE UNCHANGED queueVars
    BY <2>4 DEF queueVars
  <2>5. UNCHANGED queueVars \/ LogChange
        \/ (\E s \in Syncers, succeeds \in BOOLEAN : Acknowledge(s, succeeds))
        \/ (\E succeeds \in BOOLEAN : WatcherAcknowledges(succeeds))
    BY <1>1
    DEF Next, SyncStep, WatcherStep, Start, Preview, PublishPart, WatcherReads, WatcherTells,
        Crash, vars
  <2>6. QED
    BY <2>1, <2>2, <2>3, <2>4, <2>5
<1>2. QED
  BY <1>1, IInvHolds, PTL DEF Spec, GoneOnlyIfShown

-----------------------------------------------------------------------------
(* The end of the administrator's wait.  A change is read by a flush at the *)
(* latest when it is the oldest, and new changes do not overtake it.        *)

IsOldest(n) == n \in adminQueue /\ \A m \in adminQueue : n <= m

\* Once a flush reads again it has the oldest change, and keeps it to its end.
LEMMA OldestInDigest ==
    ASSUME IInv, NEW n \in Changes, IsOldest(n)
    PROVE  /\ watcherPc \in {"telling", "acknowledging"} /\ digest # {} => n \in digest
           /\ n \in Oldest(DigestSize, adminQueue)
<1>1. n \in Int /\ \A m \in adminQueue : m \in Int
  BY AnnouncementsAssumption DEF IInv, TypeOK, Changes
<1>2. \A m \in digest : m \in adminQueue /\ n <= m
  BY DEF IsOldest, IInv, Telling
<1>3. digest # {} => n \in digest
  <2> SUFFICES ASSUME NEW d \in digest, n \notin digest PROVE FALSE
    OBVIOUS
  <2>1. d < n /\ n <= d
    BY <1>2 DEF IsOldest, IInv, Telling
  <2> QED BY <1>1, <1>2, <2>1
<1>4. {d \in adminQueue : d < n} = {}
  <2>1. \A d \in adminQueue : ~(d < n)
    BY <1>1 DEF IsOldest
  <2> QED BY <2>1
<1>5. Cardinality({d \in adminQueue : d < n}) < DigestSize
  BY <1>4, FS_EmptySet, AnnouncementsAssumption
<1>6. QED
  BY <1>3, <1>5 DEF Oldest, IsOldest

\* A flush that tells or acknowledges has read something.
InHand == watcherPc \in {"telling", "acknowledging"} => digest # {}

LEMMA InHandKept ==
    ASSUME IInv, InHand, [Next]_vars
    PROVE  InHand'
<1>1. CASE WatcherReads
  <2>0. adminQueue \in SUBSET Changes /\ adminQueue # {}
    BY <1>1, AnnouncementsAssumption DEF WatcherReads, IInv, TypeOK, Changes
  <2>1. PICK n \in adminQueue : \A m \in adminQueue : n <= m
    BY <2>0, Extremes
  <2>2. n \in Changes /\ IsOldest(n)
    BY <2>0, <2>1 DEF IsOldest
  <2> QED BY <1>1, <2>2, OldestInDigest DEF WatcherReads, InHand
<1>2. ASSUME NEW delivery \in Deliveries, WatcherTells(delivery)
      PROVE  InHand'
  BY <1>2 DEF WatcherTells, InHand
<1>3. CASE (\E succeeds \in BOOLEAN : WatcherAcknowledges(succeeds)) \/ Crash
  BY <1>3 DEF WatcherAcknowledges, Crash, InHand
<1>4. CASE UNCHANGED watcherVars
  BY <1>4 DEF watcherVars, InHand
<1>5. QED
  BY <1>1, <1>2, <1>3, <1>4
  DEF Next, LogChange, SyncStep, Start, Preview, PublishPart, Acknowledge, WatcherStep, vars

\* The oldest change stays the oldest until it leaves the queue.
LEMMA OldestStays ==
    ASSUME IInv, IInv', [Next]_vars, NEW n \in Changes, IsOldest(n)
    PROVE  IsOldest(n)' \/ (n \notin adminQueue)'
<1>1. adminQueue' \subseteq adminQueue \cup {logged + 1}
  <2>1. CASE LogChange
    BY <2>1 DEF LogChange
  <2>2. CASE \E succeeds \in BOOLEAN : WatcherAcknowledges(succeeds)
    BY <2>2 DEF WatcherAcknowledges
  <2>3. CASE adminQueue' = adminQueue
    BY <2>3
  <2> QED
    BY <2>1, <2>2, <2>3
    DEF Next, SyncStep, Start, Preview, PublishPart, Acknowledge, WatcherStep, WatcherReads,
        WatcherTells, Crash, vars, queueVars
<1>2. logged \in Int /\ n \in Int /\ n <= logged
  BY DEF IInv, TypeOK, IsOldest
<1>3. QED
  BY <1>1, <1>2 DEF IsOldest

\* Telegram can take every digest that a flush reads.  Where it cannot, the oldest
\* changes may stay for ever: a digest is not split.
DigestsFit == \A S \in SUBSET Changes : TotalSize(Oldest(DigestSize, S)) <= MessageLimit

Fitting == watcherPc = "telling" => TotalSize(digest) <= MessageLimit

LEMMA FittingKept ==
    ASSUME DigestsFit, IInv, Fitting, [Next]_vars
    PROVE  Fitting'
<1>1. CASE WatcherReads
  <2>1. adminQueue \in SUBSET Changes
    BY AnnouncementsAssumption DEF IInv, TypeOK, Changes
  <2> QED BY <1>1, <2>1 DEF WatcherReads, DigestsFit, Fitting
<1>2. CASE watcherPc' # "telling"
  BY <1>2 DEF Fitting
<1>3. CASE UNCHANGED watcherVars
  BY <1>3 DEF watcherVars, Fitting
<1>4. QED
  BY <1>1, <1>2, <1>3
  DEF Next, LogChange, SyncStep, Start, Preview, PublishPart, Acknowledge, WatcherStep,
      WatcherTells, WatcherAcknowledges, Crash, vars

\* The fairness of FairSpec, with the states in which each of the steps is possible:
\* the ticker goes on, and neither Telegram nor the database refuses for ever what
\* it can take.
TellingFits == watcherPc = "telling" /\ TotalSize(digest) <= MessageLimit
Flushing == watcherPc # "waiting" \/ adminQueue # {}
WatcherGoesOn ==
    /\ []<>~Flushing \/ []<><<WatcherStep>>_vars
    /\ <>[]~TellingFits \/ []<><<WatcherTells(Normal)>>_vars
    /\ <>[](watcherPc # "acknowledging") \/ []<><<WatcherAcknowledges(TRUE)>>_vars

ToldInv == IInv /\ InHand /\ Fitting
Waits(n) == []ToldInv /\ [][Next]_vars /\ WatcherGoesOn /\ []IsOldest(n)
LeavesAsOldest(n) == Spec /\ WatcherGoesOn => (IsOldest(n) ~> n \notin adminQueue)

\* The administrator is told the oldest change that waits, and it leaves the queue,
\* for any number of changes, /sync commands, failures and crashes.  (New changes
\* are younger: one flush after another, so every change becomes the oldest.)
THEOREM OldestIsTold == ASSUME DigestsFit PROVE \A n \in Changes : LeavesAsOldest(n)
<1> SUFFICES ASSUME NEW n \in Changes PROVE LeavesAsOldest(n)
  OBVIOUS
<1> DEFINE waiting == watcherPc = "waiting"
           telling == watcherPc = "telling"
           ending == watcherPc = "acknowledging"
<1>1. Init => ToldInv
  BY InitIInv DEF ToldInv, InHand, Fitting, Init
<1>2. ToldInv /\ [Next]_vars => ToldInv'
  BY NextIInv, InHandKept, FittingKept DEF ToldInv
<1>3. Spec => []ToldInv
  BY <1>1, <1>2, PTL DEF Spec
<1>4. IsOldest(n) => Flushing
  BY DEF IsOldest, Flushing
<1>5. ToldInv => waiting \/ telling \/ ending
  BY DEF ToldInv, IInv, TypeOK
<1>6. waiting /\ [Next]_vars => waiting' \/ telling'
  BY DEF Next, LogChange, SyncStep, Start, Preview, PublishPart, Acknowledge, WatcherStep,
         WatcherReads, WatcherTells, WatcherAcknowledges, Crash, vars, watcherVars
<1>7. waiting /\ <<WatcherStep>>_vars => telling'
  BY DEF WatcherStep, WatcherReads, WatcherTells, WatcherAcknowledges
<1>8. ending /\ <<WatcherStep>>_vars => waiting'
  BY DEF WatcherStep, WatcherReads, WatcherTells, WatcherAcknowledges
<1>9. Waits(n) => []<>telling
  BY <1>4, <1>5, <1>6, <1>7, <1>8, PTL DEF Waits, WatcherGoesOn
<1>10. ToldInv /\ telling => TellingFits
  BY DEF ToldInv, Fitting, TellingFits
<1>11. <<WatcherTells(Normal)>>_vars => ending'
  BY DEF WatcherTells, Normal
<1>12. ending => ~(watcherPc # "acknowledging")
  OBVIOUS
<1>13. Waits(n) => []<><<WatcherAcknowledges(TRUE)>>_vars
  BY <1>9, <1>10, <1>11, <1>12, PTL DEF Waits, WatcherGoesOn
<1>14. ToldInv /\ IsOldest(n) /\ <<WatcherAcknowledges(TRUE)>>_vars => ~IsOldest(n)'
  BY OldestInDigest DEF ToldInv, WatcherAcknowledges, InHand, IsOldest
<1>15. Waits(n) => FALSE
  BY <1>13, <1>14, PTL DEF Waits
<1>16. ToldInv /\ [Next]_vars /\ IsOldest(n) => IsOldest(n)' \/ (n \notin adminQueue)'
  BY NextIInv, OldestStays DEF ToldInv
<1>17. QED
  BY <1>3, <1>15, <1>16, PTL DEF LeavesAsOldest, Waits, WatcherGoesOn, Spec

=============================================================================
