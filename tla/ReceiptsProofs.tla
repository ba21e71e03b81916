--------------------------- MODULE ReceiptsProofs ---------------------------
(***************************************************************************)
(* Theorems about Receipts for every set of updates, handlers and tokens   *)
(* and every choice of the timing constants.                               *)
(***************************************************************************)
EXTENDS Receipts, FiniteSetTheorems, TLAPS

-----------------------------------------------------------------------------
(* The strengthening behind every safety theorem.                          *)

\* A worker holds a token exactly while it has a claim.
Holding(w) == pc[w] \in {"claimed", "running", "completing", "releasing"}

\* The shape of a worker's state in each place of its program.
WorkerShape ==
    \A w \in Workers :
        /\ Holding(w) => job[w] \in Updates /\ token[w] \in Tokens
        /\ ~Holding(w) => token[w] = NoToken
        /\ pc[w] = "received" => w \in Handlers /\ job[w] \in Updates
        /\ w \in renewing => pc[w] = "running"
        /\ pc[w] = "starting" => w = Recovery
        /\ ~up => pc[w] = "idle"

\* Two workers never hold the same token, and a receipt that is not being
\* processed carries none.
TokensUnique ==
    /\ \A v, w \in Workers : Holding(v) /\ token[v] = token[w] => v = w
    /\ \A u \in Updates : status[u] = "processing" <=> claimToken[u] # NoToken

Structure == TypeOK /\ WorkerShape /\ TokensUnique

-----------------------------------------------------------------------------
LEMMA InitStructure == Init => Structure
  BY ReceiptsAssumption
  DEF Init, Structure, TypeOK, WorkerShape, TokensUnique, Holding, Workers, Modes

LEMMA ReceiveStructure ==
    ASSUME Structure, NEW w \in Handlers, NEW u \in Updates, Receive(w, u)
    PROVE  Structure'
  BY ReceiptsAssumption
  DEF Receive, Structure, TypeOK, WorkerShape, TokensUnique, Holding, Workers,
      receiptVars, historyVars

LEMMA ClaimStructure ==
    ASSUME Structure, NEW w \in Workers, NEW u \in Updates, NEW d \in Nat,
           ClaimReceipt(w, u, d),
           up, pc[w] \in {"idle", "received"},
           UNCHANGED <<stored, telegram, up, historyVars>>, todo' \subseteq todo
    PROVE  Structure'
  BY ReceiptsAssumption
  DEF ClaimReceipt, FreshTokens, Structure, TypeOK, WorkerShape, TokensUnique,
      Holding, Workers, historyVars

\* Every other action leaves the receipts alone or settles one, and frees the
\* worker or moves it to its next place.
LEMMA FinalizeStructure ==
    ASSUME Structure, NEW w \in Workers, NEW step, NEW final \in {"pending", "done"},
           step \in {"completing", "releasing"}, Finalize(w, step, final)
    PROVE  Structure'
  BY ReceiptsAssumption
  DEF Finalize, Settle, Owns, GoIdle, Structure, TypeOK, WorkerShape, TokensUnique,
      Holding, Workers, receiptVars, historyVars

LEMMA HandlerStructure ==
    ASSUME Structure, NEW w \in Handlers, HandlerStep(w)
    PROVE  Structure'
<1>1. ASSUME NEW u \in Updates, Receive(w, u) PROVE Structure'
  BY <1>1, ReceiveStructure
<1>2. CASE HandlerClaim(w)
  <2>1. job[w] \in Updates
    BY <1>2 DEF HandlerClaim, Structure, WorkerShape, Workers
  <2>2. QED
    BY <1>2, <2>1, ClaimStructure, ReceiptsAssumption DEF HandlerClaim, Workers, Structure, TypeOK
<1>3. CASE HandlerSkips(w)
  BY <1>3, ReceiptsAssumption
  DEF HandlerSkips, GoIdle, Structure, TypeOK, WorkerShape, TokensUnique, Holding,
      Workers, receiptVars, historyVars
<1>4. CASE Ingest(w)
  BY <1>4, ReceiptsAssumption
  DEF Ingest, HandlerMode, Structure, TypeOK, WorkerShape, TokensUnique, Holding,
      Workers, Modes, receiptVars, historyVars
<1>5. CASE IngestFails(w)
  BY <1>5, ReceiptsAssumption
  DEF IngestFails, Structure, TypeOK, WorkerShape, TokensUnique, Holding,
      Workers, receiptVars, historyVars
<1>6. CASE WorkWithoutAgent(w)
  BY <1>6, ReceiptsAssumption
  DEF WorkWithoutAgent, Structure, TypeOK, WorkerShape, TokensUnique, Holding,
      Workers, receiptVars, historyVars
<1>7. CASE Renew(w)
  BY <1>7, ReceiptsAssumption
  DEF Renew, RenewalDue, Owns, Structure, TypeOK, WorkerShape, TokensUnique, Holding,
      Workers, receiptVars, historyVars
<1>8. CASE RenewFails(w)
  BY <1>8, ReceiptsAssumption
  DEF RenewFails, RenewalDue, Structure, TypeOK, WorkerShape, TokensUnique, Holding,
      Workers, receiptVars, historyVars
<1>9. CASE RenewLost(w)
  BY <1>9, ReceiptsAssumption
  DEF RenewLost, RenewalDue, Structure, TypeOK, WorkerShape, TokensUnique, Holding,
      Workers, receiptVars, historyVars
<1>10. QED
  BY <1>1, <1>2, <1>3, <1>4, <1>5, <1>6, <1>7, <1>8, <1>9 DEF HandlerStep

LEMMA WorkerStructure ==
    ASSUME Structure, NEW w \in Workers, WorkerStep(w)
    PROVE  Structure'
<1>1. CASE AgentReplySent(w)
  BY <1>1, ReceiptsAssumption
  DEF AgentReplySent, Structure, TypeOK, WorkerShape, TokensUnique, Holding,
      Workers, receiptVars, historyVars
<1>2. CASE AgentReplyFails(w)
  BY <1>2, ReceiptsAssumption
  DEF AgentReplyFails, Structure, TypeOK, WorkerShape, TokensUnique, Holding,
      Workers, receiptVars, historyVars
<1>3. CASE CompleteReceipt(w)
  BY <1>3, FinalizeStructure DEF CompleteReceipt
<1>4. CASE ReleaseReceipt(w)
  BY <1>4, FinalizeStructure DEF ReleaseReceipt
<1>5. QED
  BY <1>1, <1>2, <1>3, <1>4 DEF WorkerStep

LEMMA RecoveryStructure ==
    ASSUME Structure, RecoveryStep
    PROVE  Structure'
<1> Recovery \in Workers
  BY DEF Workers
<1>1. CASE RecoveryLoad
  BY <1>1, ReceiptsAssumption
  DEF RecoveryLoad, Recoverable, Structure, TypeOK, WorkerShape, TokensUnique, Holding,
      Workers, receiptVars, historyVars
<1>2. ASSUME NEW u \in Updates, RecoveryClaim(u) PROVE Structure'
  <2>1. CASE ClaimReceipt(Recovery, u, RecoveryTime)
    BY <1>2, <2>1, ClaimStructure, ReceiptsAssumption DEF RecoveryClaim
  <2>2. CASE UNCHANGED <<receiptVars, workerVars>>
    BY <1>2, <2>2, ReceiptsAssumption
    DEF RecoveryClaim, Structure, TypeOK, WorkerShape, TokensUnique, Holding,
        Workers, receiptVars, workerVars, historyVars
  <2>3. QED
    BY <1>2, <2>1, <2>2 DEF RecoveryClaim
<1>3. CASE RecoveryRun
  BY <1>3, ReceiptsAssumption
  DEF RecoveryRun, RecoveryMode, Structure, TypeOK, WorkerShape, TokensUnique, Holding,
      Workers, Modes, receiptVars, historyVars
<1>4. QED
  BY <1>1, <1>2, <1>3 DEF RecoveryStep

LEMMA EnvironmentStructure ==
    ASSUME Structure, \/ \E u \in Updates : Confirm(u)
                      \/ Crash \/ Restart \/ Tick
                      \/ UNCHANGED vars
    PROVE  Structure'
<1>1. ASSUME NEW u \in Updates, Confirm(u) PROVE Structure'
  BY <1>1, ReceiptsAssumption
  DEF Confirm, Structure, TypeOK, WorkerShape, TokensUnique, Holding,
      Workers, receiptVars, workerVars, historyVars
<1>2. CASE Crash
  <2>1. TypeOK'
    <3>1. /\ telegram' \in [Updates -> {"queued", "delivered", "confirmed"}]
          /\ up' \in BOOLEAN
          /\ timer' \in [Workers -> Nat]
      BY <1>2 DEF Crash, Structure, TypeOK
    <3>2. misses' \in [Workers -> 0 .. MaxMisses]
      BY <1>2, ReceiptsAssumption DEF Crash
    <3>3. /\ pc' \in [Workers -> {"starting", "idle", "received", "claimed",
                                  "running", "completing", "releasing"}]
          /\ job' \in [Workers -> Updates \cup {NoUpdate}]
          /\ token' \in [Workers -> Tokens \cup {NoToken}]
          /\ renewing' \in SUBSET Handlers
          /\ todo' \in SUBSET Updates
      BY <1>2 DEF Crash
    <3>4. QED
      BY <1>2, <3>1, <3>2, <3>3 DEF Crash, Structure, TypeOK, receiptVars, historyVars
  <2>2. \A w \in Workers : pc'[w] = "idle" /\ token'[w] = NoToken /\ w \notin renewing'
    BY <1>2 DEF Crash
  <2>3. WorkerShape'
    BY <2>2 DEF WorkerShape, Holding
  <2>4. TokensUnique'
    BY <1>2, <2>2 DEF Crash, Structure, TokensUnique, Holding, receiptVars
  <2>5. QED
    BY <2>1, <2>3, <2>4 DEF Structure
<1>3. CASE Restart
  BY <1>3, ReceiptsAssumption
  DEF Restart, Structure, TypeOK, WorkerShape, TokensUnique, Holding,
      Workers, receiptVars, historyVars
<1>4. CASE Tick
  BY <1>4, ReceiptsAssumption
  DEF Tick, Timed, Structure, TypeOK, WorkerShape, TokensUnique, Holding,
      Workers, historyVars
<1>5. CASE UNCHANGED vars
  BY <1>5
  DEF vars, Structure, TypeOK, WorkerShape, TokensUnique, Holding,
      receiptVars, workerVars, historyVars
<1>6. QED
  BY <1>1, <1>2, <1>3, <1>4, <1>5

LEMMA StructureInvariant == Spec => []Structure
<1>1. Structure /\ [Next]_vars => Structure'
  BY HandlerStructure, WorkerStructure, RecoveryStructure, EnvironmentStructure DEF Next
<1>2. QED
  BY InitStructure, <1>1, PTL DEF Spec

\* Every variable keeps its type, whatever the timing.
THEOREM TypeCorrect == Spec => []TypeOK
  BY StructureInvariant, PTL DEF Structure

-----------------------------------------------------------------------------
(* Answers.  A worker about to complete an update that needs an answer has  *)
(* had its reply accepted.                                                  *)

AnsweredBeforeDone ==
    /\ \A w \in Workers : pc[w] = "completing" /\ NeedsAnswer(job[w])
                          => job[w] \in answered
    /\ DoneAnswered

LEMMA AnsweredStep ==
    Structure /\ AnsweredBeforeDone /\ [Next]_vars => AnsweredBeforeDone'
<1> SUFFICES ASSUME Structure, AnsweredBeforeDone, [Next]_vars
             PROVE  AnsweredBeforeDone'
  OBVIOUS
<1> USE DEF AnsweredBeforeDone, DoneAnswered, NeedsAnswer, Structure, TypeOK
<1>1. ASSUME NEW w \in Handlers, HandlerStep(w) PROVE AnsweredBeforeDone'
  <2>1. ASSUME NEW u \in Updates, Receive(w, u) PROVE AnsweredBeforeDone'
    BY <2>1 DEF Receive, receiptVars, historyVars, Workers
  <2>2. CASE HandlerClaim(w)
    BY <2>2 DEF HandlerClaim, ClaimReceipt, receiptVars, historyVars, Workers
  <2>3. CASE HandlerSkips(w)
    BY <2>3 DEF HandlerSkips, GoIdle, receiptVars, historyVars, Workers
  <2>4. CASE Ingest(w)
    BY <2>4 DEF Ingest, receiptVars, historyVars, Workers
  <2>5. CASE IngestFails(w)
    BY <2>5 DEF IngestFails, receiptVars, historyVars, Workers
  <2>6. CASE WorkWithoutAgent(w)
    BY <2>6 DEF WorkWithoutAgent, receiptVars, historyVars, Workers
  <2>7. CASE Renew(w) \/ RenewFails(w) \/ RenewLost(w)
    BY <2>7 DEF Renew, RenewFails, RenewLost, RenewalDue, receiptVars, historyVars, Workers
  <2>8. QED
    BY <1>1, <2>1, <2>2, <2>3, <2>4, <2>5, <2>6, <2>7 DEF HandlerStep
<1>2. ASSUME NEW w \in Workers, WorkerStep(w) PROVE AnsweredBeforeDone'
  <2>1. CASE AgentReplySent(w)
    BY <2>1 DEF AgentReplySent, receiptVars
  <2>2. CASE AgentReplyFails(w)
    BY <2>2 DEF AgentReplyFails, receiptVars
  <2>3. CASE CompleteReceipt(w)
    BY <2>3 DEF CompleteReceipt, Finalize, Settle, Owns, GoIdle, receiptVars, historyVars
  <2>4. CASE ReleaseReceipt(w)
    BY <2>4 DEF ReleaseReceipt, Finalize, Settle, Owns, GoIdle, receiptVars, historyVars
  <2>5. QED
    BY <1>2, <2>1, <2>2, <2>3, <2>4 DEF WorkerStep
<1>3. CASE RecoveryStep
  <2>1. CASE RecoveryLoad
    BY <2>1 DEF RecoveryLoad, receiptVars, historyVars
  <2>2. ASSUME NEW u \in Updates, RecoveryClaim(u) PROVE AnsweredBeforeDone'
    BY <2>2 DEF RecoveryClaim, ClaimReceipt, receiptVars, workerVars, historyVars
  <2>3. CASE RecoveryRun
    BY <2>3 DEF RecoveryRun, receiptVars
  <2>4. QED
    BY <1>3, <2>1, <2>2, <2>3 DEF RecoveryStep
<1>4. CASE (\E u \in Updates : Confirm(u)) \/ Crash \/ Restart \/ Tick
  BY <1>4 DEF Confirm, Crash, Restart, Tick, receiptVars, workerVars, historyVars
<1>5. CASE UNCHANGED vars
  BY <1>5 DEF vars, receiptVars, workerVars, historyVars
<1>6. QED
  BY <1>1, <1>2, <1>3, <1>4, <1>5 DEF Next

\* A receipt that is done had its answer accepted by Telegram, whatever
\* crashed, failed or was delivered twice, and however badly leases were
\* overrun.
THEOREM DoneIsAnswered == Spec => []DoneAnswered
<1>1. Init => AnsweredBeforeDone
  BY DEF Init, AnsweredBeforeDone, DoneAnswered
<1>2. QED
  BY <1>1, AnsweredStep, StructureInvariant, PTL DEF Spec, AnsweredBeforeDone

-----------------------------------------------------------------------------
(* What a step may do to a receipt, whatever the timing.                    *)

\* How the receipt of update u can change in one step: not at all, by a claim
\* that is allowed to win, or by its owner's completion or release.
LEMMA ReceiptChange ==
    ASSUME Structure, [Next]_vars, NEW u \in Updates
    PROVE  \/ status'[u] = status[u] /\ claimToken'[u] = claimToken[u]
           \/ Claimable(u) /\ status'[u] = "processing"
           \/ \E w \in Workers :
                 /\ job[w] = u /\ Owns(w) /\ ~Active(w) /\ job'[w] = NoUpdate
<1> USE DEF Structure, TypeOK
<1>1. ASSUME NEW w \in Workers, NEW x \in Updates, NEW d, ClaimReceipt(w, x, d)
      PROVE  \/ status'[u] = status[u] /\ claimToken'[u] = claimToken[u]
             \/ Claimable(u) /\ status'[u] = "processing"
  BY <1>1 DEF ClaimReceipt
<1>2. ASSUME NEW w \in Handlers, HandlerStep(w)
      PROVE  \/ status'[u] = status[u] /\ claimToken'[u] = claimToken[u]
             \/ Claimable(u) /\ status'[u] = "processing"
  <2>1. CASE HandlerClaim(w)
    BY <1>1, <2>1 DEF HandlerClaim, WorkerShape, Workers
  <2>2. CASE ~HandlerClaim(w)
    BY <1>2, <2>2
    DEF HandlerStep, Receive, HandlerSkips, Ingest, IngestFails, WorkWithoutAgent,
        Renew, RenewFails, RenewLost, receiptVars
  <2>3. QED
    BY <2>1, <2>2
<1>3. ASSUME NEW w \in Workers, WorkerStep(w)
      PROVE  \/ status'[u] = status[u] /\ claimToken'[u] = claimToken[u]
             \/ job[w] = u /\ Owns(w) /\ ~Active(w) /\ job'[w] = NoUpdate
  <2>1. CASE AgentReplySent(w) \/ AgentReplyFails(w)
    BY <2>1 DEF AgentReplySent, AgentReplyFails, receiptVars
  <2>2. ASSUME NEW final, NEW step \in {"completing", "releasing"}, Finalize(w, step, final)
        PROVE  \/ status'[u] = status[u] /\ claimToken'[u] = claimToken[u]
               \/ job[w] = u /\ Owns(w) /\ ~Active(w) /\ job'[w] = NoUpdate
    <3>1. ~Active(w) /\ job'[w] = NoUpdate
      BY <2>2 DEF Finalize, GoIdle, Active
    <3>2. QED
      BY <2>2, <3>1 DEF Finalize, Settle, receiptVars
  <2>3. QED
    BY <1>3, <2>1, <2>2 DEF WorkerStep, CompleteReceipt, ReleaseReceipt
<1>4. CASE RecoveryStep
  <2>1. ASSUME NEW x \in Updates, RecoveryClaim(x)
        PROVE  \/ status'[u] = status[u] /\ claimToken'[u] = claimToken[u]
               \/ Claimable(u) /\ status'[u] = "processing"
    BY <1>1, <2>1 DEF RecoveryClaim, Workers, receiptVars
  <2>2. QED
    BY <1>4, <2>1 DEF RecoveryStep, RecoveryLoad, RecoveryRun, receiptVars
<1>5. CASE (\E x \in Updates : Confirm(x)) \/ Crash \/ Restart \/ Tick \/ UNCHANGED vars
  BY <1>5 DEF Confirm, Crash, Restart, Tick, vars, receiptVars
<1>6. QED
  BY <1>2, <1>3, <1>4, <1>5 DEF Next

\* A done receipt stays done: no redelivery, restart or late worker reopens it.
THEOREM DoneStaysDone == Spec => DoneIsFinal
<1>1. Structure /\ [Next]_vars
      => [\A u \in Updates : status[u] = "done" => status'[u] = "done"]_vars
  BY ReceiptChange DEF Claimable, LeaseExpired, Owns
<1>2. QED
  BY <1>1, StructureInvariant, PTL DEF Spec, DoneIsFinal

\* An unexpired claim ends only with the worker that holds its token.
THEOREM OnlyTheOwnerEndsAClaim == Spec => ClaimEndsWithItsOwner
<1>1. Structure /\ [Next]_vars
      => [\A u \in Updates :
            status[u] = "processing" /\ leaseLeft[u] >= 0 /\ claimToken'[u] # claimToken[u]
            => \E w \in Workers : /\ job[w] = u /\ token[w] = claimToken[u]
                                 /\ ~Active(w) /\ job'[w] = NoUpdate]_vars
  <2> SUFFICES ASSUME Structure, [Next]_vars, NEW u \in Updates,
                      status[u] = "processing", leaseLeft[u] >= 0,
                      claimToken'[u] # claimToken[u]
               PROVE  \E w \in Workers : /\ job[w] = u /\ token[w] = claimToken[u]
                                        /\ ~Active(w) /\ job'[w] = NoUpdate
    OBVIOUS
  <2>1. leaseLeft[u] \in Int
    BY DEF Structure, TypeOK
  <2>2. ~Claimable(u)
    BY <2>1 DEF Claimable, LeaseExpired
  <2>3. QED
    BY <2>2, ReceiptChange DEF Owns
<1>2. QED
  BY <1>1, StructureInvariant, PTL DEF Spec, ClaimEndsWithItsOwner

-----------------------------------------------------------------------------
(* Exclusion.  While LeaseTiming holds, an active worker's lease covers the *)
(* longest time that can pass before the worker stops or renews it.         *)

\* The time worker w may still let pass without touching its lease.
Silence(w) ==
    IF w = Recovery THEN timer[w]
    ELSE IF pc[w] = "claimed" THEN timer[w] + RenewEvery * (MaxMisses + 1)
    ELSE timer[w] + RenewEvery * (MaxMisses - misses[w])

Covered ==
    \A w \in Workers : Active(w) =>
        /\ Owns(w)
        /\ Timed(w)
        /\ Silence(w) <= leaseLeft[job[w]]

LEMMA SilenceBounds ==
    ASSUME Structure, NEW w \in Workers
    PROVE  /\ Silence(w) \in Nat
           /\ Silence(w) >= timer[w]
<1>1. timer[w] \in Nat /\ misses[w] \in 0 .. MaxMisses
  BY DEF Structure, TypeOK
<1>2. /\ MaxMisses + 1 \in Nat
      /\ MaxMisses - misses[w] \in Nat
      /\ RenewEvery \in Nat
  BY <1>1, ReceiptsAssumption
<1>3. \A m, n \in Nat : m * n \in Nat
  OBVIOUS
<1>4. /\ RenewEvery * (MaxMisses + 1) \in Nat
      /\ RenewEvery * (MaxMisses - misses[w]) \in Nat
  BY <1>2, <1>3
<1>5. QED
  BY <1>1, <1>4 DEF Silence

\* What one failed renewal costs.
LEMMA MissCost ==
    ASSUME NEW r \in Nat, NEW m \in Nat, NEW k \in 0 .. m
    PROVE  /\ r * (m + 1) = r + r * m
           /\ r * (m - k) <= r * m
           /\ k < m => r * (m - k) = r + r * (m - (k + 1))
<1>1. r * (m + 1) = r + r * m
  BY SMT
<1>2. r * m = r * (m - k) + r * k
  BY SMT
<1>3. r * k >= 0 /\ r * (m - k) \in Int
  BY SMT
<1>4. r * (m - k) = r * (m - (k + 1)) + r
  BY SMT
<1>5. QED
  BY <1>1, <1>2, <1>3, <1>4

\* An active worker's update cannot be claimed by anybody else.
LEMMA CoveredNotClaimable ==
    ASSUME Structure, Covered, NEW w \in Workers, Active(w)
    PROVE  ~Claimable(job[w])
<1>1. Silence(w) >= 0 /\ Silence(w) <= leaseLeft[job[w]] /\ Owns(w)
  BY SilenceBounds DEF Covered
<1>2. job[w] \in Updates
  BY DEF Active, Structure, WorkerShape, Holding
<1>3. leaseLeft[job[w]] \in Int /\ Silence(w) \in Int
  BY <1>2, SilenceBounds DEF Structure, TypeOK
<1>4. QED
  BY <1>1, <1>3 DEF Claimable, LeaseExpired, Owns

\* A step that touches neither an active worker nor its receipt keeps it covered.
LEMMA CoveredFrame ==
    ASSUME Structure, Covered,
           \A v \in Workers : Active(v)' =>
              /\ Active(v)
              /\ pc'[v] = pc[v] /\ job'[v] = job[v] /\ token'[v] = token[v]
              /\ timer'[v] = timer[v] /\ misses'[v] = misses[v]
              /\ v \in renewing => v \in renewing'
              /\ status'[job[v]] = status[job[v]]
              /\ claimToken'[job[v]] = claimToken[job[v]]
              /\ leaseLeft'[job[v]] = leaseLeft[job[v]]
    PROVE  Covered'
<1> SUFFICES ASSUME NEW v \in Workers, Active(v)'
             PROVE  Owns(v)' /\ Timed(v)' /\ (Silence(v) <= leaseLeft[job[v]])'
  BY DEF Covered
<1>1. Owns(v) /\ Timed(v) /\ Silence(v) <= leaseLeft[job[v]]
  BY DEF Covered
<1>2. Owns(v)'
  BY <1>1 DEF Owns
<1>3. Timed(v)'
  BY <1>1 DEF Timed
<1>4. Silence(v)' = Silence(v)
  BY DEF Silence
<1>5. QED
  BY <1>1, <1>2, <1>3, <1>4

LEMMA ClaimCovered ==
    ASSUME Structure, Covered, LeaseTiming,
           NEW w \in Workers, NEW u \in Updates, NEW d \in Nat,
           ClaimReceipt(w, u, d),
           pc[w] \in {"idle", "received"},
           d = IF w = Recovery THEN RecoveryTime ELSE IngestTime
    PROVE  Covered'
<1> SUFFICES ASSUME NEW v \in Workers, Active(v)'
             PROVE  Owns(v)' /\ Timed(v)' /\ (Silence(v) <= leaseLeft[job[v]])'
  BY DEF Covered
<1>1. CASE v = w
  <2>1. /\ pc'[w] = "claimed" /\ job'[w] = u /\ timer'[w] = d
        /\ status'[u] = "processing" /\ claimToken'[u] = token'[w]
        /\ leaseLeft'[u] = Lease
    BY DEF ClaimReceipt, Structure, TypeOK
  <2>2. Owns(w)' /\ Timed(w)'
    BY <2>1 DEF Owns, Timed
  <2>3. Silence(w)' <= Lease
    BY <2>1, ReceiptsAssumption DEF Silence, LeaseTiming
  <2>4. QED
    BY <1>1, <2>1, <2>2, <2>3
<1>2. CASE v # w
  <2>1. /\ pc'[v] = pc[v] /\ job'[v] = job[v] /\ token'[v] = token[v]
        /\ timer'[v] = timer[v] /\ misses'[v] = misses[v] /\ renewing' = renewing
    BY <1>2 DEF ClaimReceipt, Structure, TypeOK
  <2>2. Active(v)
    BY <2>1 DEF Active
  <2>3. job[v] # u
    BY <2>2, CoveredNotClaimable DEF ClaimReceipt
  <2>4. /\ status'[job[v]] = status[job[v]]
        /\ claimToken'[job[v]] = claimToken[job[v]]
        /\ leaseLeft'[job[v]] = leaseLeft[job[v]]
    BY <2>3 DEF ClaimReceipt, Structure, TypeOK
  <2>5. Owns(v) /\ Timed(v) /\ Silence(v) <= leaseLeft[job[v]]
    BY <2>2 DEF Covered
  <2>6. Silence(v)' = Silence(v)
    BY <2>1 DEF Silence
  <2>7. Owns(v)' /\ Timed(v)'
    BY <2>1, <2>4, <2>5 DEF Owns, Timed
  <2>8. QED
    BY <2>1, <2>4, <2>5, <2>6, <2>7
<1>3. QED
  BY <1>1, <1>2

\* Completing or releasing an update touches no active worker's receipt.
LEMMA FinalizeCovered ==
    ASSUME Structure, Covered, NEW w \in Workers, NEW step, NEW final,
           step \in {"completing", "releasing"}, Finalize(w, step, final)
    PROVE  Covered'
<1>1. ASSUME NEW v \in Workers, Active(v)'
      PROVE  /\ v # w /\ Active(v)
             /\ pc'[v] = pc[v] /\ job'[v] = job[v] /\ token'[v] = token[v]
             /\ timer'[v] = timer[v] /\ misses'[v] = misses[v]
             /\ v \in renewing => v \in renewing'
  <2>1. v # w
    BY <1>1 DEF Finalize, GoIdle, Active, Structure, TypeOK
  <2>2. QED
    BY <1>1, <2>1 DEF Finalize, GoIdle, Active, Structure, TypeOK
<1>2. ASSUME NEW v \in Workers, Active(v), v # w
      PROVE  /\ status'[job[v]] = status[job[v]]
             /\ claimToken'[job[v]] = claimToken[job[v]]
             /\ leaseLeft'[job[v]] = leaseLeft[job[v]]
  <2>1. CASE Settle(w, final)
    <3>1. Owns(v) /\ Owns(w)
      BY <1>2, <2>1 DEF Covered, Settle
    <3>2. token[v] # token[w]
      BY <1>2 DEF Structure, TokensUnique, Active, Holding
    <3>3. job[v] # job[w]
      BY <3>1, <3>2 DEF Owns
    <3>4. job[v] \in Updates /\ job[w] \in Updates
      BY <1>2 DEF Finalize, Active, Structure, WorkerShape, Holding
    <3>5. QED
      BY <2>1, <3>3, <3>4 DEF Settle, Structure, TypeOK
  <2>2. CASE UNCHANGED receiptVars
    BY <2>2 DEF receiptVars
  <2>3. QED
    BY <2>1, <2>2 DEF Finalize
<1>3. QED
  BY <1>1, <1>2, CoveredFrame

\* A worker that only changes its own place, and is no longer active after it.
LEMMA StopCovered ==
    ASSUME Structure, Covered, NEW w \in Workers, NEW next,
           next \in {"completing", "releasing", "received", "idle"},
           pc' = [pc EXCEPT ![w] = next],
           \A v \in Workers \ {w} : job'[v] = job[v],
           \A v \in Workers \ {w} : token'[v] = token[v] /\ timer'[v] = timer[v]
                                  /\ misses'[v] = misses[v],
           renewing \ {w} \subseteq renewing',
           UNCHANGED receiptVars
    PROVE  Covered'
<1>1. ASSUME NEW v \in Workers, Active(v)'
      PROVE  v # w /\ Active(v) /\ pc'[v] = pc[v]
  BY <1>1 DEF Active, Structure, TypeOK
<1>2. QED
  BY <1>1, CoveredFrame DEF receiptVars

LEMMA HandlerCovered ==
    ASSUME Structure, Covered, LeaseTiming, NEW w \in Handlers, HandlerStep(w)
    PROVE  Covered'
<1> w \in Workers /\ w # Recovery
  BY ReceiptsAssumption DEF Workers
<1>1. ASSUME NEW u \in Updates, Receive(w, u) PROVE Covered'
  BY <1>1, StopCovered DEF Receive, Structure, TypeOK
<1>2. CASE HandlerClaim(w)
  <2>1. job[w] \in Updates
    BY <1>2 DEF HandlerClaim, Structure, WorkerShape
  <2>2. QED
    BY <1>2, <2>1, ClaimCovered, ReceiptsAssumption DEF HandlerClaim
<1>3. CASE HandlerSkips(w)
  BY <1>3, StopCovered DEF HandlerSkips, GoIdle, Structure, TypeOK
<1>4. CASE Ingest(w)
  <2> SUFFICES ASSUME NEW v \in Workers, Active(v)'
               PROVE  Owns(v)' /\ Timed(v)' /\ (Silence(v) <= leaseLeft[job[v]])'
    BY DEF Covered
  <2>1. Active(v)
    BY <1>4 DEF Ingest, Active, Structure, TypeOK
  <2>2. Owns(v) /\ Timed(v) /\ Silence(v) <= leaseLeft[job[v]]
    BY <2>1 DEF Covered
  <2>3. Owns(v)' /\ Timed(v)'
    BY <1>4, <2>2 DEF Ingest, Owns, Timed, receiptVars, Structure, TypeOK
  <2>4. CASE v # w
    BY <1>4, <2>2, <2>3, <2>4 DEF Ingest, Silence, receiptVars, Structure, TypeOK
  <2>5. CASE v = w
    <3>1. misses[w] \in 0 .. MaxMisses /\ timer[w] \in Nat
      BY DEF Structure, TypeOK
    <3>2. Silence(w) = timer[w] + RenewEvery * (MaxMisses + 1)
      BY <1>4 DEF Ingest, Silence
    <3>3. Silence(w)' = RenewEvery + RenewEvery * (MaxMisses - misses[w])
      BY <1>4 DEF Ingest, Silence, Structure, TypeOK
    <3>4. /\ RenewEvery * (MaxMisses + 1) = RenewEvery + RenewEvery * MaxMisses
          /\ RenewEvery * (MaxMisses - misses[w]) <= RenewEvery * MaxMisses
      BY <3>1, MissCost, ReceiptsAssumption
    <3>5. /\ RenewEvery * MaxMisses \in Int
          /\ RenewEvery * (MaxMisses - misses[w]) \in Int
          /\ RenewEvery \in Int
      BY <3>1, ReceiptsAssumption, SMT
    <3>6. Silence(w)' <= Silence(w)
      <4> DEFINE a == RenewEvery * (MaxMisses + 1)
                 b == RenewEvery * MaxMisses
                 c == RenewEvery * (MaxMisses - misses[w])
      <4>1. a = RenewEvery + b /\ c <= b /\ b \in Int /\ c \in Int
        BY <3>4, <3>5
      <4>2. Silence(w) = timer[w] + a /\ Silence(w)' = RenewEvery + c
        BY <3>2, <3>3
      <4> HIDE DEF a, b, c
      <4>3. QED
        BY <4>1, <4>2, <3>1, <3>5
    <3>7. /\ leaseLeft'[job'[w]] = leaseLeft[job[w]] /\ leaseLeft[job[w]] \in Int
          /\ Silence(w) \in Int /\ Silence(w)' \in Int
      <4>1. job[w] \in Updates
        BY <1>4 DEF Ingest, Structure, WorkerShape, Holding
      <4>2. Silence(w)' \in Int
        BY <3>3, <3>5
      <4>3. QED
        BY <1>4, <4>1, <4>2, SilenceBounds DEF Ingest, receiptVars, Structure, TypeOK
    <3>8. QED
      BY <2>2, <2>3, <2>5, <3>6, <3>7
  <2>6. QED
    BY <2>4, <2>5
<1>5. CASE IngestFails(w)
  BY <1>5, StopCovered DEF IngestFails, Structure, TypeOK
<1>6. CASE WorkWithoutAgent(w)
  BY <1>6, StopCovered DEF WorkWithoutAgent, Structure, TypeOK
<1>7. CASE Renew(w)
  <2> SUFFICES ASSUME NEW v \in Workers, Active(v)'
               PROVE  Owns(v)' /\ Timed(v)' /\ (Silence(v) <= leaseLeft[job[v]])'
    BY DEF Covered
  <2>1. Active(v)
    BY <1>7 DEF Renew, Active
  <2>2. Owns(v) /\ Timed(v) /\ Silence(v) <= leaseLeft[job[v]]
    BY <2>1 DEF Covered
  <2>3. Owns(v)' /\ Timed(v)'
    BY <1>7, <2>2 DEF Renew, Owns, Timed
  <2>4. CASE v = w
    <3>1. pc[w] = "running" /\ job[w] \in Updates
      BY <1>7 DEF Renew, RenewalDue, Structure, WorkerShape, Holding
    <3>2. Silence(w)' = RenewEvery + RenewEvery * MaxMisses
      BY <1>7, <3>1, ReceiptsAssumption DEF Renew, Silence, Structure, TypeOK
    <3>3. RenewEvery * (MaxMisses + 1) = RenewEvery + RenewEvery * MaxMisses
      BY MissCost, ReceiptsAssumption
    <3>4. Silence(w)' <= Lease
      <4>1. Silence(w)' = RenewEvery * (MaxMisses + 1)
        BY <3>2, <3>3
      <4>2. RenewEvery * (MaxMisses + 1) \in Int
        BY ReceiptsAssumption, SMT
      <4> DEFINE a == RenewEvery * (MaxMisses + 1)
      <4>3. a \in Int /\ IngestTime + a <= Lease /\ Silence(w)' = a
        BY <4>1, <4>2 DEF LeaseTiming
      <4> HIDE DEF a
      <4>4. QED
        BY <4>3, ReceiptsAssumption
    <3>5. (leaseLeft[job[w]])' = Lease
      BY <1>7, <3>1 DEF Renew, Structure, TypeOK
    <3>6. QED
      BY <2>3, <2>4, <3>4, <3>5
  <2>5. CASE v # w
    <3>1. job[v] # job[w]
      <4>1. Owns(w) /\ Holding(w) /\ Holding(v)
        BY <1>7, <2>1 DEF Renew, RenewalDue, Structure, WorkerShape, Holding, Active
      <4>2. QED
        BY <2>2, <2>5, <4>1 DEF Owns, Structure, TokensUnique
    <3>2. Silence(v)' = Silence(v) /\ (leaseLeft[job[v]])' = leaseLeft[job[v]]
      BY <1>7, <2>5, <3>1 DEF Renew, Silence, Structure, TypeOK
    <3>3. QED
      BY <2>2, <2>3, <3>2
  <2>6. QED
    BY <2>4, <2>5
<1>8. CASE RenewFails(w)
  <2> SUFFICES ASSUME NEW v \in Workers, Active(v)'
               PROVE  Owns(v)' /\ Timed(v)' /\ (Silence(v) <= leaseLeft[job[v]])'
    BY DEF Covered
  <2>1. Active(v)
    BY <1>8 DEF RenewFails, Active
  <2>2. Owns(v) /\ Timed(v) /\ Silence(v) <= leaseLeft[job[v]]
    BY <2>1 DEF Covered
  <2>3. Owns(v)' /\ Timed(v)'
    BY <1>8, <2>2 DEF RenewFails, Owns, Timed, receiptVars
  <2>4. Silence(v)' = Silence(v)
    <3>1. CASE v = w
      <4>1. pc[w] = "running" /\ timer[w] = 0
        BY <1>8 DEF RenewFails, RenewalDue, Structure, WorkerShape
      <4>2. misses[w] \in 0 .. MaxMisses /\ misses[w] < MaxMisses
        BY <1>8 DEF RenewFails, Structure, TypeOK
      <4>3. RenewEvery * (MaxMisses - misses[w])
              = RenewEvery + RenewEvery * (MaxMisses - (misses[w] + 1))
        BY <4>2, MissCost, ReceiptsAssumption
      <4>4. Silence(w)' = RenewEvery + RenewEvery * (MaxMisses - (misses[w] + 1))
        BY <1>8, <4>1 DEF RenewFails, Silence, Structure, TypeOK
      <4>5. Silence(w) = 0 + RenewEvery * (MaxMisses - misses[w])
        BY <4>1 DEF Silence
      <4>6. RenewEvery * (MaxMisses - misses[w]) \in Int
        BY <4>2, ReceiptsAssumption, SMT
      <4>7. QED
        BY <3>1, <4>3, <4>4, <4>5, <4>6
    <3>2. CASE v # w
      BY <1>8, <3>2 DEF RenewFails, Silence, Structure, TypeOK
    <3>3. QED
      BY <3>1, <3>2
  <2>5. QED
    BY <1>8, <2>2, <2>3, <2>4 DEF RenewFails, receiptVars
<1>9. CASE RenewLost(w)
  <2>1. pc[w] = "running"
    BY <1>9 DEF RenewLost, RenewalDue, Structure, WorkerShape
  <2>2. Owns(w)
    BY <2>1 DEF Covered, Active
  <2>3. QED
    BY <1>9, <2>2 DEF RenewLost
<1>10. QED
  BY <1>1, <1>2, <1>3, <1>4, <1>5, <1>6, <1>7, <1>8, <1>9 DEF HandlerStep

LEMMA CoveredStep ==
    ASSUME Structure, Covered, LeaseTiming, [Next]_vars
    PROVE  Covered'
<1> Recovery \in Workers
  BY DEF Workers
<1>1. ASSUME NEW w \in Workers, WorkerStep(w) PROVE Covered'
  <2>1. CASE AgentReplySent(w)
    BY <2>1, StopCovered DEF AgentReplySent, Structure, TypeOK
  <2>2. CASE AgentReplyFails(w)
    BY <2>2, StopCovered DEF AgentReplyFails, Structure, TypeOK
  <2>3. CASE CompleteReceipt(w) \/ ReleaseReceipt(w)
    BY <2>3, FinalizeCovered DEF CompleteReceipt, ReleaseReceipt
  <2>4. QED
    BY <1>1, <2>1, <2>2, <2>3 DEF WorkerStep
<1>2. CASE RecoveryLoad
  BY <1>2, StopCovered DEF RecoveryLoad, Structure, TypeOK
<1>3. ASSUME NEW u \in Updates, RecoveryClaim(u) PROVE Covered'
  <2>1. CASE ClaimReceipt(Recovery, u, RecoveryTime)
    BY <1>3, <2>1, ClaimCovered, ReceiptsAssumption DEF RecoveryClaim
  <2>2. CASE UNCHANGED <<receiptVars, workerVars>>
    BY <2>2, CoveredFrame DEF receiptVars, workerVars, Active
  <2>3. QED
    BY <1>3, <2>1, <2>2 DEF RecoveryClaim
<1>4. CASE RecoveryRun
  <2>1. CASE pc' = [pc EXCEPT ![Recovery] = "running"]
    <3> SUFFICES ASSUME NEW v \in Workers, Active(v)'
                 PROVE  Owns(v)' /\ Timed(v)' /\ (Silence(v) <= leaseLeft[job[v]])'
      BY DEF Covered
    <3>1. Active(v)
      BY <1>4, <2>1 DEF RecoveryRun, Active, Structure, TypeOK
    <3>2. Owns(v) /\ Timed(v) /\ Silence(v) <= leaseLeft[job[v]]
      BY <3>1 DEF Covered
    <3>3. Silence(v)' = Silence(v)
      BY <1>4, <2>1 DEF RecoveryRun, Silence, Structure, TypeOK
    <3>4. Owns(v)' /\ Timed(v)'
      BY <1>4, <2>1, <3>2 DEF RecoveryRun, Owns, Timed, receiptVars, Structure, TypeOK
    <3>5. QED
      BY <1>4, <3>2, <3>3, <3>4 DEF RecoveryRun, receiptVars
  <2>2. CASE pc' = [pc EXCEPT ![Recovery] = "releasing"]
    BY <1>4, <2>2, StopCovered DEF RecoveryRun, Structure, TypeOK
  <2>3. QED
    BY <1>4, <2>1, <2>2 DEF RecoveryRun
<1>5. ASSUME NEW u \in Updates, Confirm(u) PROVE Covered'
  BY <1>5, CoveredFrame DEF Confirm, receiptVars, workerVars, Active
<1>6. CASE Crash
  BY <1>6 DEF Crash, Covered, Active
<1>7. CASE Restart
  <2>1. \A v \in Workers : ~Active(v)'
    BY <1>7 DEF Restart, Active, Structure, TypeOK, WorkerShape
  <2>2. QED
    BY <2>1 DEF Covered
<1>8. CASE Tick
  <2> SUFFICES ASSUME NEW v \in Workers, Active(v)'
               PROVE  Owns(v)' /\ Timed(v)' /\ (Silence(v) <= leaseLeft[job[v]])'
    BY DEF Covered
  <2>1. Active(v) /\ job[v] \in Updates
    BY <1>8 DEF Tick, Active, Structure, WorkerShape, Holding
  <2>2. Owns(v) /\ Timed(v) /\ Silence(v) <= leaseLeft[job[v]]
    BY <2>1 DEF Covered
  <2>3. timer[v] > 0 /\ timer'[v] = timer[v] - 1 /\ timer[v] \in Nat
    BY <1>8, <2>2 DEF Tick, Structure, TypeOK
  <2>4. /\ leaseLeft[job[v]] >= 0
        /\ leaseLeft[job[v]] \in Int
    BY <2>1, <2>2, SilenceBounds DEF Structure, TypeOK
  <2>5. (leaseLeft[job[v]])' = leaseLeft[job[v]] - 1
    BY <1>8, <2>1, <2>4 DEF Tick
  <2>6. Silence(v)' = Silence(v) - 1
    <3>1. misses[v] \in 0 .. MaxMisses
      BY DEF Structure, TypeOK
    <3>2. /\ RenewEvery * (MaxMisses + 1) \in Int
          /\ RenewEvery * (MaxMisses - misses[v]) \in Int
      BY <3>1, ReceiptsAssumption, SMT
    <3> DEFINE a == RenewEvery * (MaxMisses + 1)
               b == RenewEvery * (MaxMisses - misses[v])
    <3>3. Silence(v) = IF v = Recovery THEN timer[v]
                       ELSE IF pc[v] = "claimed" THEN timer[v] + a ELSE timer[v] + b
      BY DEF Silence
    <3>4. Silence(v)' = IF v = Recovery THEN timer'[v]
                        ELSE IF pc[v] = "claimed" THEN timer'[v] + a ELSE timer'[v] + b
      BY <1>8 DEF Silence, Tick
    <3>5. a \in Int /\ b \in Int
      BY <3>2
    <3> HIDE DEF a, b
    <3>6. QED
      BY <2>3, <3>3, <3>4, <3>5
  <2>7. Owns(v)' /\ Timed(v)'
    BY <1>8, <2>2 DEF Tick, Owns, Timed
  <2>8. QED
    BY <2>2, <2>4, <2>5, <2>6, <2>7, SilenceBounds
<1>9. CASE UNCHANGED vars
  BY <1>9, CoveredFrame DEF vars, receiptVars, workerVars, Active
<1>10. QED
  BY <1>1, <1>2, <1>3, <1>4, <1>5, <1>6, <1>7, <1>8, <1>9, HandlerCovered
  DEF Next, RecoveryStep

LEMMA CoveredInvariant == ASSUME LeaseTiming PROVE Spec => [](Structure /\ Covered)
<1>1. Init => Covered
  BY DEF Init, Covered, Active, Workers
<1>2. Structure /\ Covered /\ [Next]_vars => Covered'
  BY CoveredStep
<1>3. QED
  BY <1>1, <1>2, StructureInvariant, PTL DEF Spec

\* For every lease long enough to cover ingestion, the renewals a failing
\* database swallows and a recovery run: no two workers ever work on the same
\* update, across crashes, restarts, redeliveries and failed renewals.
THEOREM OneActiveOwner == ASSUME LeaseTiming PROVE Spec => []SingleActiveOwner
<1>1. Structure /\ Covered => SingleActiveOwner
  BY DEF SingleActiveOwner, Structure, TokensUnique, Covered, Owns, Active, Holding
<1>2. QED
  BY <1>1, CoveredInvariant, PTL

\* Under the same condition nobody works on an update whose receipt is settled.
THEOREM SettledIsQuiet == ASSUME LeaseTiming PROVE Spec => []QuietWhenSettled
<1>1. Structure /\ Covered => QuietWhenSettled
  BY DEF QuietWhenSettled, Covered, Owns
<1>2. QED
  BY <1>1, CoveredInvariant, PTL

-----------------------------------------------------------------------------
(* Refinement: every step is a step of UpdateOwnership or leaves it alone.  *)

IInv == Structure /\ Covered /\ AnsweredBeforeDone

LEMMA OwnerIsActive ==
    ASSUME IInv, NEW w \in Workers, Active(w)
    PROVE  Owner(job[w]) = w
<1>1. WorkingOn(job[w]) = {w}
  BY DEF IInv, Structure, TokensUnique, Covered, Owns, Active, Holding, WorkingOn
<1>2. QED
  BY <1>1 DEF Owner

LEMMA OwnerFrame ==
    ASSUME NEW x, WorkingOn(x)' = WorkingOn(x) PROVE Owner(x)' = Owner(x)
  BY DEF Owner

\* Who works on what is unchanged when no worker starts or stops.
LEMMA OwnersFrame ==
    ASSUME \A v \in Workers : /\ Active(v)' <=> Active(v)
                              /\ Active(v) => job'[v] = job[v]
    PROVE  \A u \in Updates : Owner(u)' = Owner(u)
<1> TAKE u \in Updates
<1>1. WorkingOn(u)' = WorkingOn(u)
  BY DEF WorkingOn
<1>2. QED
  BY <1>1 DEF Owner

\* A worker that starts on an update nobody can claim away takes it.
LEMMA ClaimTakes ==
    ASSUME IInv, NEW w \in Workers, NEW u \in Updates, NEW d,
           pc[w] \in {"idle", "received"},
           ClaimReceipt(w, u, d), UNCHANGED answered
    PROVE  Ownership!Take(w, u)
<1>1. \A v \in Workers \ {w} : /\ Active(v)' <=> Active(v)
                               /\ job'[v] = job[v]
  BY DEF ClaimReceipt, Active, IInv, Structure, TypeOK
<1>2. ~Active(w) /\ Active(w)' /\ job'[w] = u
  BY DEF ClaimReceipt, Active, IInv, Structure, TypeOK
<1>3. WorkingOn(u) = {}
  BY CoveredNotClaimable DEF ClaimReceipt, WorkingOn, IInv
<1>4. WorkingOn(u)' = {w}
  BY <1>1, <1>2, <1>3 DEF WorkingOn
<1>5. \A x \in Updates \ {u} : WorkingOn(x)' = WorkingOn(x)
  BY <1>1, <1>2 DEF WorkingOn
<1>6. Owner(u) = NoUpdate /\ Owner(u)' = w /\ \A x \in Updates \ {u} : Owner(x)' = Owner(x)
  <2>1. Owner(u) = NoUpdate /\ Owner(u)' = w
    BY <1>3, <1>4 DEF Owner
  <2>2. ASSUME NEW x \in Updates \ {u} PROVE Owner(x)' = Owner(x)
    BY <1>5, OwnerFrame
  <2>3. QED
    BY <2>1, <2>2
<1>7. u \notin Done /\ Done' = Done
  BY DEF Done, ClaimReceipt, Claimable, LeaseExpired, IInv, Structure, TypeOK
<1>8. QED
  BY <1>6, <1>7 DEF Ownership!Take

\* A worker that stops working gives its update up.
LEMMA StopStops ==
    ASSUME IInv, NEW w \in Workers, Active(w), NEW next \in {"completing", "releasing"},
           pc' = [pc EXCEPT ![w] = next], UNCHANGED <<job, status>>,
           answered' \in {answered, answered \cup {job[w]}}
    PROVE  job[w] \in Updates /\ Ownership!Stop(job[w])
<1>1. job[w] \in Updates
  BY DEF Active, IInv, Structure, WorkerShape, Holding
<1>2. Owner(job[w]) = w /\ w # NoUpdate
  BY OwnerIsActive, ReceiptsAssumption
<1>3. \A v \in Workers \ {w} : Active(v)' <=> Active(v)
  BY DEF Active, IInv, Structure, TypeOK
<1>4. ~Active(w)'
  BY DEF Active, IInv, Structure, TypeOK
<1>5. WorkingOn(job[w]) = {w}
  BY DEF IInv, Structure, TokensUnique, Covered, Owns, Active, Holding, WorkingOn
<1>6. WorkingOn(job[w])' = {}
  BY <1>3, <1>4, <1>5 DEF WorkingOn
<1>7. \A x \in Updates \ {job[w]} : WorkingOn(x)' = WorkingOn(x)
  BY <1>3, <1>4 DEF WorkingOn
<1>8. /\ Owner(job[w])' = NoUpdate
      /\ \A x \in Updates \ {job[w]} : Owner(x)' = Owner(x)
  <2>1. Owner(job[w])' = NoUpdate
    BY <1>6 DEF Owner
  <2>2. ASSUME NEW x \in Updates \ {job[w]} PROVE Owner(x)' = Owner(x)
    BY <1>7, OwnerFrame
  <2>3. QED
    BY <2>1, <2>2
<1>9. Done' = Done
  BY DEF Done
<1>10. [x \in Updates |-> Owner(x)]' = [[x \in Updates |-> Owner(x)] EXCEPT ![job[w]] = NoUpdate]
  BY <1>1, <1>8
<1>11. QED
  BY <1>1, <1>2, <1>9, <1>10 DEF Ownership!Stop

\* The end of a claim settles the update, or changes nothing that is promised.
LEMMA FinalizeSettles ==
    ASSUME IInv, NEW w \in Workers, CompleteReceipt(w) \/ ReleaseReceipt(w)
    PROVE  Ownership!Next \/ UNCHANGED Ownership!ownershipVars
<1>1. job[w] \in Updates /\ ~Active(w)
  BY DEF CompleteReceipt, ReleaseReceipt, Finalize, Active, IInv, Structure, WorkerShape, Holding
<1>2. \A v \in Workers : /\ Active(v)' <=> Active(v)
                         /\ Active(v) => job'[v] = job[v]
  BY <1>1 DEF CompleteReceipt, ReleaseReceipt, Finalize, GoIdle, Active, IInv, Structure, TypeOK
<1>3. [x \in Updates |-> Owner(x)]' = [x \in Updates |-> Owner(x)]
  BY <1>2, OwnersFrame
<1>4. UNCHANGED answered
  BY DEF CompleteReceipt, ReleaseReceipt, Finalize, historyVars
<1>5. CASE CompleteReceipt(w) /\ Settle(w, "done")
  <2>1. Done' = Done \cup {job[w]}
    BY <1>1, <1>5 DEF Done, Settle, IInv, Structure, TypeOK
  <2>2. WorkingOn(job[w]) = {}
    <3> SUFFICES ASSUME NEW v \in Workers, Active(v), job[v] = job[w] PROVE FALSE
      BY DEF WorkingOn
    <3>1. Owns(v) /\ Owns(w) /\ Holding(v) /\ Holding(w)
      BY <1>5 DEF IInv, Covered, Settle, CompleteReceipt, Finalize, Holding, Active
    <3>2. QED
      BY <1>1, <3>1 DEF Owns, IInv, Structure, TokensUnique
  <2>3. Owner(job[w]) = NoUpdate
    BY <2>2 DEF Owner
  <2>4. NeedsAnswer(job[w]) => job[w] \in answered
    BY <1>5 DEF IInv, AnsweredBeforeDone, CompleteReceipt, Finalize
  <2>5. Ownership!Settle(job[w])
    BY <1>1, <1>3, <1>4, <2>1, <2>3, <2>4 DEF Ownership!Settle
  <2>6. QED
    BY <1>1, <2>5 DEF Ownership!Next
<1>6. CASE ~(CompleteReceipt(w) /\ Settle(w, "done"))
  <2>1. Done' = Done
    <3>1. CASE UNCHANGED receiptVars
      BY <3>1 DEF receiptVars, Done
    <3>2. CASE Settle(w, "pending")
      BY <1>1, <3>2 DEF Settle, Owns, Done, IInv, Structure, TypeOK
    <3>3. QED
      BY <1>6, <3>1, <3>2 DEF CompleteReceipt, ReleaseReceipt, Finalize
  <2>2. QED
    BY <1>3, <1>4, <2>1 DEF Ownership!ownershipVars
<1>7. QED
  BY <1>5, <1>6

LEMMA StepImplements ==
    ASSUME IInv, [Next]_vars
    PROVE  [Ownership!Next]_(Ownership!ownershipVars)
<1> Recovery \in Workers /\ Handlers \subseteq Workers
  BY DEF Workers
<1> DEFINE Frame == /\ \A v \in Workers : /\ Active(v)' <=> Active(v)
                                          /\ Active(v) => job'[v] = job[v]
                    /\ UNCHANGED <<status, answered>>
<1>1. Frame => UNCHANGED Ownership!ownershipVars
  <2>1. ASSUME Frame PROVE UNCHANGED Ownership!ownershipVars
    <3>1. [x \in Updates |-> Owner(x)]' = [x \in Updates |-> Owner(x)]
      BY <2>1, OwnersFrame
    <3>2. Done' = Done
      BY <2>1 DEF Done
    <3>3. QED
      BY <2>1, <3>1, <3>2 DEF Ownership!ownershipVars
  <2>2. QED
    BY <2>1
<1>2. ASSUME NEW w \in Workers, NEW u \in Updates, Ownership!Take(w, u)
      PROVE  Ownership!Next
  BY <1>2 DEF Ownership!Next
<1>3. ASSUME NEW u \in Updates, Ownership!Stop(u) PROVE Ownership!Next
  BY <1>3 DEF Ownership!Next
<1>4. ASSUME NEW w \in Handlers, HandlerStep(w)
      PROVE  Ownership!Next \/ UNCHANGED Ownership!ownershipVars
  <2>1. ASSUME NEW u \in Updates, Receive(w, u) PROVE Frame
    BY <2>1 DEF Receive, Active, IInv, Structure, TypeOK, receiptVars, historyVars
  <2>2. CASE HandlerClaim(w)
    <3>1. job[w] \in Updates
      BY <2>2 DEF HandlerClaim, IInv, Structure, WorkerShape
    <3>2. Ownership!Take(w, job[w])
      BY <2>2, <3>1, ClaimTakes DEF HandlerClaim, historyVars
    <3>3. QED
      BY <1>2, <3>1, <3>2
  <2>3. CASE HandlerSkips(w)
    BY <1>1, <2>3 DEF HandlerSkips, GoIdle, Active, IInv, Structure, TypeOK, receiptVars, historyVars
  <2>4. CASE Ingest(w)
    BY <1>1, <2>4 DEF Ingest, Active, IInv, Structure, TypeOK, receiptVars
  <2>5. CASE IngestFails(w)
    <3>1. job[w] \in Updates /\ Ownership!Stop(job[w])
      BY <2>5, StopStops DEF IngestFails, Active, receiptVars, historyVars
    <3>2. QED
      BY <1>3, <3>1
  <2>6. CASE WorkWithoutAgent(w)
    <3>1. job[w] \in Updates /\ Ownership!Stop(job[w])
      BY <2>6, StopStops DEF WorkWithoutAgent, Active, receiptVars
    <3>2. QED
      BY <1>3, <3>1
  <2>7. CASE Renew(w) \/ RenewFails(w) \/ RenewLost(w)
    BY <1>1, <2>7 DEF Renew, RenewFails, RenewLost, Active, receiptVars, historyVars
  <2>8. QED
    BY <1>1, <1>4, <2>1, <2>2, <2>3, <2>4, <2>5, <2>6, <2>7 DEF HandlerStep
<1>5. ASSUME NEW w \in Workers, WorkerStep(w)
      PROVE  Ownership!Next \/ UNCHANGED Ownership!ownershipVars
  <2>1. CASE AgentReplySent(w)
    <3>1. job[w] \in Updates /\ Ownership!Stop(job[w])
      BY <2>1, StopStops DEF AgentReplySent, Active, receiptVars
    <3>2. QED
      BY <1>3, <3>1
  <2>2. CASE AgentReplyFails(w)
    <3>1. job[w] \in Updates /\ Ownership!Stop(job[w])
      BY <2>2, StopStops DEF AgentReplyFails, Active, receiptVars
    <3>2. QED
      BY <1>3, <3>1
  <2>3. QED
    BY <1>5, <2>1, <2>2, FinalizeSettles DEF WorkerStep
<1>6. CASE RecoveryLoad
  BY <1>1, <1>6 DEF RecoveryLoad, Active, IInv, Structure, TypeOK, receiptVars, historyVars
<1>7. ASSUME NEW u \in Updates, RecoveryClaim(u)
      PROVE  Ownership!Next \/ UNCHANGED Ownership!ownershipVars
  <2>1. CASE ClaimReceipt(Recovery, u, RecoveryTime)
    <3>1. Ownership!Take(Recovery, u)
      BY <1>7, <2>1, ClaimTakes DEF RecoveryClaim, historyVars
    <3>2. QED
      BY <1>2, <3>1
  <2>2. CASE UNCHANGED <<receiptVars, workerVars>>
    BY <1>1, <1>7, <2>2 DEF RecoveryClaim, Active, receiptVars, workerVars, historyVars
  <2>3. QED
    BY <1>7, <2>1, <2>2 DEF RecoveryClaim
<1>8. CASE RecoveryRun
  <2>1. CASE pc' = [pc EXCEPT ![Recovery] = "running"]
    BY <1>1, <1>8, <2>1 DEF RecoveryRun, Active, IInv, Structure, TypeOK, receiptVars
  <2>2. CASE pc' = [pc EXCEPT ![Recovery] = "releasing"]
    <3>1. job[Recovery] \in Updates /\ Ownership!Stop(job[Recovery])
      BY <1>8, <2>2, StopStops DEF RecoveryRun, Active, receiptVars
    <3>2. QED
      BY <1>3, <3>1
  <2>3. QED
    BY <1>8, <2>1, <2>2 DEF RecoveryRun
<1>9. CASE (\E u \in Updates : Confirm(u)) \/ Tick
  BY <1>1, <1>9 DEF Confirm, Tick, Active, receiptVars, workerVars, historyVars
<1>10. CASE Crash
  <2>1. \A u \in Updates : WorkingOn(u)' = {}
    BY <1>10 DEF Crash, WorkingOn, Active
  <2>2. [x \in Updates |-> Owner(x)]' = [x \in Updates |-> NoUpdate]
    BY <2>1 DEF Owner
  <2>3. Done' = Done /\ UNCHANGED answered
    BY <1>10 DEF Crash, Done, receiptVars, historyVars
  <2>4. Ownership!Crash
    BY <2>2, <2>3 DEF Ownership!Crash
  <2>5. QED
    BY <2>4 DEF Ownership!Next
<1>11. CASE Restart
  BY <1>1, <1>11 DEF Restart, Active, IInv, Structure, TypeOK, WorkerShape, receiptVars, historyVars
<1>12. CASE UNCHANGED vars
  BY <1>1, <1>12 DEF vars, Active, receiptVars, workerVars, historyVars
<1>13. QED
  BY <1>4, <1>5, <1>6, <1>7, <1>8, <1>9, <1>10, <1>11, <1>12 DEF Next, RecoveryStep

\* With a lease that is long enough, the receipts implement the abstract
\* ownership of updates: exclusive, answered before settled, settled for good.
THEOREM ReceiptsImplementOwnership ==
    ASSUME LeaseTiming PROVE Spec => ImplementsOwnership
<1>1. Init => Ownership!Init
  <2> SUFFICES ASSUME Init PROVE Ownership!Init
    OBVIOUS
  <2>1. \A u \in Updates : WorkingOn(u) = {}
    BY DEF Init, WorkingOn, Active
  <2>2. \A u \in Updates : Owner(u) = NoUpdate
    BY <2>1 DEF Owner
  <2>3. Done = {} /\ answered = {}
    BY DEF Init, Done
  <2>4. QED
    BY <2>2, <2>3 DEF Ownership!Init
<1>2. Init => AnsweredBeforeDone
  BY DEF Init, AnsweredBeforeDone, DoneAnswered
<1>3. Spec => []IInv
  BY <1>2, AnsweredStep, CoveredInvariant, PTL DEF IInv, Spec
<1>4. IInv /\ [Next]_vars => [Ownership!Next]_(Ownership!ownershipVars)
  BY StepImplements
<1>5. QED
  BY <1>1, <1>3, <1>4, PTL DEF Spec, ImplementsOwnership, Ownership!Spec
-----------------------------------------------------------------------------
(* The end of a claim, while the process lives and its database answers.   *)
(* The claim of an update may pass to another worker when its lease is over *)
(* before its holder has settled it.  But from one start of the process to  *)
(* its end only one handler and the recovery can claim an update, once each. *)

\* Worker x has the claim of update u.
Holds(x, u) == Holding(x) /\ job[x] = u /\ Owns(x)
Held(u) == \E x \in Workers : Holds(x, u)
Settled(u) == status[u] # "processing" \/ ~up

\* The steps that are left to the holder of a claim.
Left(x) == IF pc[x] = "claimed" THEN 3 ELSE IF pc[x] = "running" THEN 2 ELSE 1

\* Who may still claim update u.
HandlerMayClaim(u) ==
    telegram[u] = "queued" \/ \E x \in Handlers : pc[x] = "received" /\ job[x] = u
RecoveryMayClaim(u) == pc[Recovery] = "starting" \/ u \in todo
Rivals(u) ==
    (IF HandlerMayClaim(u) THEN 1 ELSE 0) + (IF RecoveryMayClaim(u) THEN 1 ELSE 0)

\* An update that is delivered is delivered to one handler.
DeliveredOnce ==
    \A u \in Updates : \A x, y \in Handlers :
        /\ job[x] = u /\ job[y] = u => x = y
        /\ telegram[u] = "queued" => job[x] # u

\* A claim that a living worker has begun is held by somebody, or settled.
NoneAbandoned ==
    \A x \in Workers : \A u \in Updates :
        Holding(x) /\ job[x] = u => status[u] # "processing" \/ Held(u)

LEMMA NobodyAtNoUpdate == NoUpdate \notin Updates /\ Recovery \notin Handlers
  BY ReceiptsAssumption

LEMMA DeliveredOnceStep ==
    ASSUME Structure, DeliveredOnce, [Next]_vars
    PROVE  DeliveredOnce'
<1> USE DEF Structure, TypeOK, Workers
<1>1. ASSUME NEW w \in Workers, GoIdle(w), UNCHANGED telegram
      PROVE  DeliveredOnce'
  BY <1>1, NobodyAtNoUpdate DEF GoIdle, DeliveredOnce
<1>2. CASE UNCHANGED <<job, telegram>>
  BY <1>2 DEF DeliveredOnce
<1>3. ASSUME NEW w \in Handlers, HandlerStep(w)
      PROVE  DeliveredOnce'
  <2>1. ASSUME NEW u \in Updates, Receive(w, u)
        PROVE  DeliveredOnce'
    <3>1. /\ job' = [job EXCEPT ![w] = u] /\ telegram' = [telegram EXCEPT ![u] = "delivered"]
          /\ telegram[u] = "queued"
      BY <2>1 DEF Receive
    <3>2. QED
      BY <3>1 DEF DeliveredOnce
  <2>2. CASE HandlerClaim(w)
    BY <2>2 DEF HandlerClaim, ClaimReceipt, DeliveredOnce
  <2>3. CASE HandlerSkips(w)
    BY <1>1, <2>3 DEF HandlerSkips
  <2>4. QED
    BY <1>2, <1>3, <2>1, <2>2, <2>3
    DEF HandlerStep, Ingest, IngestFails, WorkWithoutAgent, Renew, RenewFails, RenewLost
<1>4. ASSUME NEW w \in Workers, WorkerStep(w)
      PROVE  DeliveredOnce'
  BY <1>1, <1>2, <1>4
  DEF WorkerStep, AgentReplySent, AgentReplyFails, CompleteReceipt, ReleaseReceipt, Finalize
<1>5. CASE RecoveryStep
  <2>1. \A x \in Handlers : job'[x] = job[x]
    BY <1>5, NobodyAtNoUpdate
    DEF RecoveryStep, RecoveryLoad, RecoveryClaim, ClaimReceipt, RecoveryRun, workerVars
  <2>2. telegram' = telegram
    BY <1>5 DEF RecoveryStep, RecoveryLoad, RecoveryClaim, RecoveryRun
  <2>3. QED
    BY <2>1, <2>2 DEF DeliveredOnce
<1>6. ASSUME NEW u \in Updates, Confirm(u)
      PROVE  DeliveredOnce'
  BY <1>6 DEF Confirm, DeliveredOnce, workerVars
<1>7. CASE Crash
  BY <1>7, NobodyAtNoUpdate DEF Crash, DeliveredOnce
<1>8. CASE Restart \/ Tick \/ UNCHANGED vars
  BY <1>2, <1>8 DEF Restart, Tick, vars, workerVars
<1>9. QED
  BY <1>3, <1>4, <1>5, <1>6, <1>7, <1>8 DEF Next

\* While the process lives nobody who could not claim an update becomes able to.
LEMMA RivalsNeverRise ==
    ASSUME Structure, [Next]_vars, up, up', NEW u \in Updates
    PROVE  /\ HandlerMayClaim(u)' => HandlerMayClaim(u)
           /\ RecoveryMayClaim(u)' => RecoveryMayClaim(u)
<1> USE DEF Structure, TypeOK, Workers, HandlerMayClaim, RecoveryMayClaim
<1>1. ASSUME NEW w \in Workers, GoIdle(w), UNCHANGED <<telegram, todo>>
      PROVE  /\ HandlerMayClaim(u)' => HandlerMayClaim(u)
             /\ RecoveryMayClaim(u)' => RecoveryMayClaim(u)
  BY <1>1 DEF GoIdle
<1>2. ASSUME NEW w \in Handlers, HandlerStep(w)
      PROVE  /\ HandlerMayClaim(u)' => HandlerMayClaim(u)
             /\ RecoveryMayClaim(u)' => RecoveryMayClaim(u)
  <2>1. ASSUME NEW x \in Updates, Receive(w, x)
        PROVE  /\ HandlerMayClaim(u)' => HandlerMayClaim(u)
               /\ RecoveryMayClaim(u)' => RecoveryMayClaim(u)
    BY <2>1 DEF Receive
  <2>2. CASE HandlerClaim(w)
    BY <2>2 DEF HandlerClaim, ClaimReceipt
  <2>3. CASE HandlerSkips(w)
    BY <1>1, <2>3 DEF HandlerSkips
  <2>4. CASE Ingest(w) \/ IngestFails(w) \/ WorkWithoutAgent(w) \/ Renew(w) \/ RenewFails(w) \/ RenewLost(w)
    BY <2>4 DEF Ingest, IngestFails, WorkWithoutAgent, Renew, RenewFails, RenewLost
  <2>5. QED
    BY <1>2, <2>1, <2>2, <2>3, <2>4 DEF HandlerStep
<1>3. ASSUME NEW w \in Workers, WorkerStep(w)
      PROVE  /\ HandlerMayClaim(u)' => HandlerMayClaim(u)
             /\ RecoveryMayClaim(u)' => RecoveryMayClaim(u)
  <2>1. CASE AgentReplySent(w) \/ AgentReplyFails(w)
    BY <2>1 DEF AgentReplySent, AgentReplyFails
  <2>2. QED
    BY <1>1, <1>3, <2>1 DEF WorkerStep, CompleteReceipt, ReleaseReceipt, Finalize
<1>4. CASE RecoveryStep
  BY <1>4 DEF RecoveryStep, RecoveryLoad, RecoveryClaim, ClaimReceipt, RecoveryRun, workerVars
<1>5. ASSUME NEW x \in Updates, Confirm(x)
      PROVE  /\ HandlerMayClaim(u)' => HandlerMayClaim(u)
             /\ RecoveryMayClaim(u)' => RecoveryMayClaim(u)
  BY <1>5 DEF Confirm, workerVars
<1>6. CASE Tick \/ UNCHANGED vars
  BY <1>6 DEF Tick, vars, workerVars
<1>7. QED
  BY <1>2, <1>3, <1>4, <1>5, <1>6 DEF Next, Crash, Restart

\* What a step may do to the claim of update u that worker x has: nothing, one
\* step of the holder's work, or the passing of an expired claim to a rival.
Keeps(x, u) == Holds(x, u)' /\ pc'[x] = pc[x]
WorksOn(x, u) == Holds(x, u)' /\ Left(x)' < Left(x)
Passes(u) ==
    \E y \in Workers :
        /\ Holds(y, u)'
        /\ \/ HandlerMayClaim(u) /\ ~HandlerMayClaim(u)'
           \/ RecoveryMayClaim(u) /\ ~RecoveryMayClaim(u)'

LEMMA HolderFrame ==
    ASSUME Structure, NEW x \in Workers, NEW u \in Updates, Holds(x, u),
           status'[u] = status[u], claimToken'[u] = claimToken[u],
           job'[x] = job[x], token'[x] = token[x]
    PROVE  /\ pc'[x] = pc[x] => Keeps(x, u)
           /\ pc[x] = "claimed" /\ pc'[x] \in {"running", "releasing"} => WorksOn(x, u)
           /\ pc[x] = "running" /\ pc'[x] \in {"completing", "releasing"} => WorksOn(x, u)
  BY DEF Holds, Holding, Owns, Keeps, WorksOn, Left

\* Only one worker has the claim.
LEMMA OneHolder ==
    ASSUME Structure, NEW x \in Workers, NEW y \in Workers, NEW u \in Updates,
           Holds(x, u), job[y] = u, Owns(y)
    PROVE  x = y
  BY DEF Structure, TokensUnique, Holds, Owns

\* A worker that claims the update has its claim, and nobody else's changes.
LEMMA ClaimHolds ==
    ASSUME Structure, NEW w \in Workers, NEW v \in Updates, NEW d,
           ClaimReceipt(w, v, d)
    PROVE  /\ Holds(w, v)'
           /\ \A u \in Updates \ {v} : status'[u] = status[u] /\ claimToken'[u] = claimToken[u]
           /\ \A x \in Workers \ {w} : pc'[x] = pc[x] /\ job'[x] = job[x] /\ token'[x] = token[x]
  BY DEF ClaimReceipt, Structure, TypeOK, Holds, Holding, Owns

LEMMA FinalizeHolder ==
    ASSUME Structure, "db" \notin Faults, NEW x \in Workers, NEW u \in Updates, Holds(x, u),
           NEW w \in Workers, NEW step, NEW final \in {"pending", "done"}, Finalize(w, step, final)
    PROVE  Settled(u)' \/ Keeps(x, u)
<1> USE DEF Structure, TypeOK
<1>1. /\ \A v \in Workers \ {w} : pc'[v] = pc[v] /\ job'[v] = job[v] /\ token'[v] = token[v]
      /\ Settle(w, final) \/ (~Owns(w) /\ UNCHANGED receiptVars)
  BY DEF Finalize, GoIdle
<1>2. CASE Settle(w, final)
  <2>1. CASE job[w] = u
    BY <1>2, <2>1 DEF Settle, Settled
  <2>2. CASE job[w] # u
    <3>1. x # w
      BY <2>2 DEF Holds
    <3>2. status'[u] = status[u] /\ claimToken'[u] = claimToken[u]
      BY <1>2, <2>2 DEF Settle
    <3> QED BY <1>1, <3>1, <3>2, HolderFrame
  <2> QED BY <2>1, <2>2
<1>3. CASE ~Owns(w) /\ UNCHANGED receiptVars
  <2>1. x # w
    BY <1>3 DEF Holds
  <2> QED BY <1>1, <1>3, <2>1, HolderFrame DEF receiptVars
<1>4. QED
  BY <1>1, <1>2, <1>3

LEMMA HandlerMovesClaim ==
    ASSUME Structure, DeliveredOnce, "db" \notin Faults, NEW x \in Workers, NEW u \in Updates,
           Holds(x, u), NEW w \in Handlers, HandlerStep(w)
    PROVE  Keeps(x, u) \/ WorksOn(x, u) \/ Passes(u)
<1> USE DEF Structure, TypeOK, Workers
<1>1. pc[x] \in {"claimed", "running", "completing", "releasing"}
  BY DEF Holds, Holding
<1>2. ASSUME NEW v \in Updates, Receive(w, v)
      PROVE  Keeps(x, u)
  BY <1>1, <1>2, HolderFrame DEF Receive, receiptVars
<1>3. CASE HandlerClaim(w)
  <2>1. /\ pc[w] = "received" /\ job[w] \in Updates /\ x # w
        /\ ClaimReceipt(w, job[w], IngestTime) /\ telegram' = telegram
        /\ pc' = [pc EXCEPT ![w] = "claimed"] /\ job' = job
    BY <1>1, <1>3 DEF HandlerClaim, ClaimReceipt, WorkerShape
  <2>2. CASE job[w] = u
    <3>1. Holds(w, u)'
      BY <2>1, <2>2, ClaimHolds
    <3>2. HandlerMayClaim(u)
      BY <2>1, <2>2 DEF HandlerMayClaim
    <3>3. ~HandlerMayClaim(u)'
      BY <2>1, <2>2 DEF HandlerMayClaim, DeliveredOnce
    <3> QED BY <3>1, <3>2, <3>3 DEF Passes
  <2>3. CASE job[w] # u
    BY <2>1, <2>3, ClaimHolds, HolderFrame
  <2> QED BY <2>2, <2>3
<1>4. CASE HandlerSkips(w)
  BY <1>1, <1>4, HolderFrame DEF HandlerSkips, GoIdle, receiptVars
<1>5. CASE Ingest(w)
  <2>1. /\ receiptVars' = receiptVars /\ job' = job /\ token' = token
        /\ pc[w] = "claimed" /\ pc' = [pc EXCEPT ![w] = "running"]
    BY <1>5 DEF Ingest
  <2> QED BY <2>1, HolderFrame DEF receiptVars
<1>6. CASE WorkWithoutAgent(w)
  <2>1. /\ receiptVars' = receiptVars /\ job' = job /\ token' = token
        /\ pc[w] = "running" /\ pc' = [pc EXCEPT ![w] = "completing"]
    BY <1>6 DEF WorkWithoutAgent
  <2> QED BY <2>1, HolderFrame DEF receiptVars
<1>7. CASE Renew(w) \/ RenewFails(w) \/ RenewLost(w)
  BY <1>7, HolderFrame DEF Renew, RenewFails, RenewLost, receiptVars
<1>8. QED
  BY <1>2, <1>3, <1>4, <1>5, <1>6, <1>7 DEF HandlerStep, IngestFails

LEMMA RecoveryMovesClaim ==
    ASSUME Structure, "db" \notin Faults, NEW x \in Workers, NEW u \in Updates,
           Holds(x, u), RecoveryStep
    PROVE  Keeps(x, u) \/ WorksOn(x, u) \/ Passes(u)
<1> USE DEF Structure, TypeOK, Workers
<1>1. pc[x] \in {"claimed", "running", "completing", "releasing"}
  BY DEF Holds, Holding
<1>2. CASE RecoveryLoad
  BY <1>1, <1>2, HolderFrame DEF RecoveryLoad, receiptVars
<1>3. ASSUME NEW v \in Updates, RecoveryClaim(v)
      PROVE  Keeps(x, u) \/ Passes(u)
  <2>1. pc[Recovery] = "idle" /\ v \in todo /\ todo' = todo \ {v} /\ x # Recovery
    BY <1>1, <1>3 DEF RecoveryClaim
  <2>2. CASE UNCHANGED <<receiptVars, workerVars>>
    BY <2>2, HolderFrame DEF receiptVars, workerVars
  <2>3. CASE ClaimReceipt(Recovery, v, RecoveryTime)
    <3>1. CASE v = u
      <4>1. Holds(Recovery, u)'
        BY <2>3, <3>1, ClaimHolds
      <4>2. RecoveryMayClaim(u) /\ ~RecoveryMayClaim(u)'
        BY <2>1, <2>3, <3>1 DEF RecoveryMayClaim, ClaimReceipt
      <4> QED BY <4>1, <4>2 DEF Passes
    <3>2. CASE v # u
      <4>1. /\ status'[u] = status[u] /\ claimToken'[u] = claimToken[u]
            /\ pc'[x] = pc[x] /\ job'[x] = job[x] /\ token'[x] = token[x]
        BY <2>1, <2>3, <3>2 DEF ClaimReceipt
      <4> QED BY <4>1, HolderFrame
    <3> QED BY <3>1, <3>2
  <2> QED BY <1>3, <2>2, <2>3 DEF RecoveryClaim
<1>4. CASE RecoveryRun
  <2>1. /\ receiptVars' = receiptVars /\ job' = job /\ token' = token
        /\ pc[Recovery] = "claimed" /\ pc' = [pc EXCEPT ![Recovery] = "running"]
    BY <1>4 DEF RecoveryRun
  <2> QED BY <2>1, HolderFrame DEF receiptVars
<1>5. QED
  BY <1>2, <1>3, <1>4 DEF RecoveryStep

LEMMA HolderMoves ==
    ASSUME Structure, DeliveredOnce, "db" \notin Faults, [Next]_vars,
           NEW x \in Workers, NEW u \in Updates, Holds(x, u)
    PROVE  Settled(u)' \/ Keeps(x, u) \/ WorksOn(x, u) \/ Passes(u)
<1> USE DEF Structure, TypeOK, Workers
<1>1. ASSUME NEW w \in Workers, WorkerStep(w)
      PROVE  Settled(u)' \/ Keeps(x, u) \/ WorksOn(x, u)
  <2>1. CASE AgentReplySent(w) \/ AgentReplyFails(w)
    <3>1. /\ receiptVars' = receiptVars /\ job' = job /\ token' = token
          /\ pc[w] = "running" /\ \E p \in {"completing", "releasing"} : pc' = [pc EXCEPT ![w] = p]
      BY <2>1 DEF AgentReplySent, AgentReplyFails
    <3> QED BY <3>1, HolderFrame DEF receiptVars
  <2>2. CASE CompleteReceipt(w) \/ ReleaseReceipt(w)
    BY <2>2, FinalizeHolder DEF CompleteReceipt, ReleaseReceipt
  <2> QED BY <1>1, <2>1, <2>2 DEF WorkerStep
<1>2. ASSUME NEW v \in Updates, Confirm(v)
      PROVE  Keeps(x, u)
  BY <1>2, HolderFrame DEF Confirm, receiptVars, workerVars
<1>3. CASE Crash
  BY <1>3 DEF Crash, Settled
<1>4. CASE Restart
  BY <1>4 DEF Restart, WorkerShape, Holds, Holding
<1>5. CASE Tick \/ UNCHANGED vars
  BY <1>5, HolderFrame DEF Tick, vars, receiptVars, workerVars
<1>6. QED
  BY <1>1, <1>2, <1>3, <1>4, <1>5, HandlerMovesClaim, RecoveryMovesClaim DEF Next

\* Work on an update, and the state "processing", begin only with a claim.
NothingBegins ==
    /\ \A x \in Workers : Holding(x)' => Holding(x) /\ job'[x] = job[x]
    /\ \A u \in Updates : status'[u] = "processing" => status[u] = "processing"

LEMMA BeginsWithClaim ==
    ASSUME Structure, [Next]_vars
    PROVE  \/ NothingBegins
           \/ \E w \in Workers, v \in Updates, d \in Nat : ClaimReceipt(w, v, d)
<1> USE DEF Structure, TypeOK, Workers
<1>1. ASSUME NEW w \in Workers, pc[w] \in {"claimed", "running"}, UNCHANGED <<receiptVars, job>>,
             NEW p, pc' = [pc EXCEPT ![w] = p]
      PROVE  NothingBegins
  BY <1>1 DEF NothingBegins, Holding, receiptVars
<1>2. ASSUME NEW w \in Workers, GoIdle(w), receiptVars' = receiptVars
      PROVE  NothingBegins
  BY <1>2 DEF GoIdle, NothingBegins, Holding, receiptVars
<1>3. CASE UNCHANGED <<receiptVars, job, pc>>
  BY <1>3 DEF NothingBegins, Holding, receiptVars
<1>4. ASSUME NEW w \in Handlers, HandlerStep(w)
      PROVE  NothingBegins \/ \E v \in Updates, d \in Nat : ClaimReceipt(w, v, d)
  <2>1. ASSUME NEW v \in Updates, Receive(w, v)
        PROVE  NothingBegins
    BY <2>1 DEF Receive, NothingBegins, Holding, receiptVars
  <2>2. CASE HandlerClaim(w)
    BY <2>2, ReceiptsAssumption DEF HandlerClaim, WorkerShape
  <2>3. CASE HandlerSkips(w)
    BY <1>2, <2>3 DEF HandlerSkips
  <2>4. CASE Ingest(w) \/ IngestFails(w) \/ WorkWithoutAgent(w)
    BY <1>1, <2>4 DEF Ingest, IngestFails, WorkWithoutAgent
  <2>5. CASE Renew(w) \/ RenewFails(w) \/ RenewLost(w)
    BY <2>5 DEF Renew, RenewFails, RenewLost, NothingBegins, Holding, receiptVars
  <2> QED BY <1>4, <2>1, <2>2, <2>3, <2>4, <2>5 DEF HandlerStep
<1>5. ASSUME NEW w \in Workers, WorkerStep(w)
      PROVE  NothingBegins
  <2>1. CASE AgentReplySent(w) \/ AgentReplyFails(w)
    BY <1>1, <2>1 DEF AgentReplySent, AgentReplyFails
  <2>2. ASSUME NEW final \in {"pending", "done"}, NEW step, Finalize(w, step, final)
        PROVE  NothingBegins
    <3>1. CASE Settle(w, final)
      BY <2>2, <3>1 DEF Finalize, Settle, GoIdle, NothingBegins, Holding
    <3> QED BY <1>2, <2>2, <3>1 DEF Finalize
  <2> QED BY <1>5, <2>1, <2>2 DEF WorkerStep, CompleteReceipt, ReleaseReceipt
<1>6. CASE RecoveryStep
  <2>1. CASE RecoveryLoad
    BY <2>1 DEF RecoveryLoad, NothingBegins, Holding, receiptVars
  <2>2. ASSUME NEW v \in Updates, RecoveryClaim(v)
        PROVE  NothingBegins \/ \E w \in Workers, u \in Updates, d \in Nat : ClaimReceipt(w, u, d)
    <3>1. CASE UNCHANGED <<receiptVars, workerVars>>
      BY <1>3, <3>1 DEF workerVars
    <3> QED BY <2>2, <3>1, ReceiptsAssumption DEF RecoveryClaim
  <2>3. CASE RecoveryRun
    BY <1>1, <2>3 DEF RecoveryRun
  <2> QED BY <1>6, <2>1, <2>2, <2>3 DEF RecoveryStep
<1>7. ASSUME NEW v \in Updates, Confirm(v)
      PROVE  NothingBegins
  BY <1>7 DEF Confirm, workerVars, receiptVars, NothingBegins, Holding
<1>8. CASE Crash \/ Restart
  BY <1>8 DEF Crash, Restart, NothingBegins, Holding, receiptVars
<1>9. CASE Tick \/ UNCHANGED vars
  BY <1>9 DEF Tick, vars, receiptVars, workerVars, NothingBegins, Holding
<1>10. QED
  BY <1>4, <1>5, <1>6, <1>7, <1>8, <1>9 DEF Next

LEMMA NoneAbandonedStep ==
    ASSUME Structure, Structure', DeliveredOnce, NoneAbandoned, "db" \notin Faults, [Next]_vars
    PROVE  NoneAbandoned'
<1> SUFFICES ASSUME NEW x \in Workers, NEW u \in Updates, Holding(x)', job'[x] = u,
                    status'[u] = "processing"
             PROVE  Held(u)'
  BY DEF NoneAbandoned
<1>1. ~Settled(u)'
  <2>1. up'
    BY DEF Structure, WorkerShape, Holding
  <2> QED BY <2>1 DEF Settled
<1>2. CASE Held(u)
  <2>1. PICK y \in Workers : Holds(y, u)
    BY <1>2 DEF Held
  <2>2. Keeps(y, u) \/ WorksOn(y, u) \/ Passes(u)
    BY <1>1, <2>1, HolderMoves
  <2>3. Held(u)'
    BY <2>2 DEF Keeps, WorksOn, Passes, Held, Workers
  <2> QED BY <2>3
<1>3. CASE ~Held(u) /\ NothingBegins
  BY <1>1, <1>3 DEF NothingBegins, NoneAbandoned
<1>4. ASSUME ~Held(u), NEW w \in Workers, NEW v \in Updates, NEW d \in Nat, ClaimReceipt(w, v, d)
      PROVE  Held(u)'
  <2>1. CASE v = u
    BY <1>4, <2>1, ClaimHolds DEF Held, Workers
  <2>2. CASE v # u
    <3>1. /\ status'[u] = status[u] /\ claimToken'[u] = claimToken[u]
          /\ pc'[w] = "claimed" /\ job'[w] = v
          /\ \A y \in Workers \ {w} : pc'[y] = pc[y] /\ job'[y] = job[y] /\ token'[y] = token[y]
      BY <1>1, <1>4, <2>2 DEF ClaimReceipt, Structure, TypeOK
    <3>2. x # w
      BY <2>2, <3>1
    <3>3. Holding(x) /\ job[x] = u /\ status[job[x]] = "processing"
      BY <3>1, <3>2 DEF Holding
    <3> QED BY <1>4, <3>3 DEF NoneAbandoned
  <2> QED BY <2>1, <2>2
<1>5. QED
  BY <1>2, <1>3, <1>4, BeginsWithClaim

ClaimInv == Structure /\ DeliveredOnce /\ NoneAbandoned

LEMMA ClaimInvariant == ASSUME "db" \notin Faults PROVE Spec => []ClaimInv
<1>1. Init => DeliveredOnce /\ NoneAbandoned
  BY NobodyAtNoUpdate DEF Init, DeliveredOnce, NoneAbandoned, Holding, Workers
<1>2. Structure /\ Structure' /\ DeliveredOnce /\ NoneAbandoned /\ [Next]_vars
      => DeliveredOnce' /\ NoneAbandoned'
  BY DeliveredOnceStep, NoneAbandonedStep
<1>3. QED
  BY <1>1, <1>2, StructureInvariant, PTL DEF Spec, ClaimInv

\* The steps a worker takes of its own accord from its claim to the end of it.
Works(x) ==
    \/ Ingest(x) \/ IngestFails(x) \/ WorkWithoutAgent(x) \/ WorkerStep(x)
    \/ x = Recovery /\ RecoveryRun
HolderWorks(u) == \E x \in Workers : job[x] = u /\ Owns(x) /\ Works(x)

\* At most n steps of its holders are left until the claim of u has ended.
Within(n, u) == \E x \in Workers : Holds(x, u) /\ 3 * Rivals(u) + Left(x) <= n

LEMMA WithinBounds ==
    ASSUME NEW u \in Updates
    PROVE  /\ Held(u) <=> Within(9, u)
           /\ \A n : Within(n, u) => Held(u)
           /\ ~Within(0, u)
           /\ Rivals(u) \in 0 .. 2
           /\ \A x \in Workers : Left(x) \in 1 .. 3
<1>1. Rivals(u) \in 0 .. 2
  BY DEF Rivals
<1>2. \A x \in Workers : Left(x) \in 1 .. 3
  BY DEF Left
<1>3. QED
  BY <1>1, <1>2 DEF Within, Held

\* No step raises the number, and the holder's own steps lower it.
LEMMA WorkLeaves ==
    ASSUME Structure, NEW x \in Workers, Works(x)
    PROVE  pc'[x] # pc[x]
  BY DEF Works, WorkerStep, Ingest, IngestFails, WorkWithoutAgent, AgentReplySent,
         AgentReplyFails, CompleteReceipt, ReleaseReceipt, Finalize, GoIdle, RecoveryRun,
         Structure, TypeOK

LEMMA WithinGoesDown ==
    ASSUME ClaimInv, "db" \notin Faults, [Next]_vars, NEW u \in Updates, NEW n \in Int, Within(n, u)
    PROVE  /\ Within(n, u)' \/ Settled(u)'
           /\ HolderWorks(u) => Within(n - 1, u)' \/ Settled(u)'
<1>1. PICK x \in Workers : Holds(x, u) /\ 3 * Rivals(u) + Left(x) <= n
  BY DEF Within
<1>2. CASE ~Settled(u)'
  <2>1. up /\ up'
    BY <1>1, <1>2 DEF Settled, ClaimInv, Structure, TypeOK, WorkerShape, Holds, Holding
  <2>2. /\ HandlerMayClaim(u)' => HandlerMayClaim(u)
        /\ RecoveryMayClaim(u)' => RecoveryMayClaim(u)
    BY <2>1, RivalsNeverRise DEF ClaimInv
  <2>3. /\ Rivals(u)' <= Rivals(u) /\ Rivals(u)' \in 0 .. 2 /\ Rivals(u) \in 0 .. 2
    BY <2>2 DEF Rivals
  <2>4. \A y \in Workers : Left(y) \in 1 .. 3 /\ Left(y)' \in 1 .. 3
    BY DEF Left
  <2>5. CASE Keeps(x, u)
    <3>1. Holds(x, u)' /\ Left(x)' = Left(x)
      BY <2>5 DEF Keeps, Left
    <3>2. ~HolderWorks(u)
      BY <1>1, <2>5, WorkLeaves, OneHolder DEF ClaimInv, HolderWorks, Keeps
    <3> QED BY <1>1, <2>3, <2>4, <3>1, <3>2 DEF Within, Workers
  <2>6. CASE WorksOn(x, u)
    BY <1>1, <2>3, <2>4, <2>6 DEF WorksOn, Within, Workers
  <2>7. CASE Passes(u)
    <3>1. Rivals(u)' < Rivals(u)
      BY <2>2, <2>7 DEF Passes, Rivals
    <3>2. PICK y \in Workers : Holds(y, u)'
      BY <2>7 DEF Passes
    <3>3. 3 * Rivals(u)' + Left(y)' <= n - 1
      BY <1>1, <2>3, <2>4, <3>1
    <3>4. 3 * Rivals(u)' + Left(y)' <= n
      BY <2>3, <2>4, <3>3
    <3> QED BY <3>2, <3>3, <3>4 DEF Within, Workers
  <2> QED BY <1>1, <1>2, <2>5, <2>6, <2>7, HolderMoves DEF ClaimInv
<1>3. QED
  BY <1>2

\* Every statement and call of a live process returns: either again and again
\* nobody has the claim of u, or again and again who has it takes a step.
HolderGoesOn(u) == []<>~Held(u) \/ []<><<HolderWorks(u)>>_vars

Falls(n, m, u) == Spec /\ HolderGoesOn(u) => (Within(n, u) ~> Within(m, u) \/ Settled(u))

LEMMA OneStepLess ==
    ASSUME "db" \notin Faults, NEW u \in Updates, NEW n \in 1 .. 9, NEW m \in 0 .. 8, n = m + 1
    PROVE  Falls(n, m, u)
<1>1. ClaimInv /\ Within(n, u) /\ [Next]_vars => Within(n, u)' \/ Settled(u)'
  BY WithinGoesDown
<1>2. ClaimInv /\ Within(n, u) /\ [Next]_vars /\ <<HolderWorks(u)>>_vars
      => Within(m, u)' \/ Settled(u)'
  <2>1. m = n - 1
    OBVIOUS
  <2> QED BY <2>1, WithinGoesDown
<1>3. Within(n, u) => Held(u)
  BY WithinBounds
<1>4. QED
  BY <1>1, <1>2, <1>3, ClaimInvariant, PTL DEF Falls, HolderGoesOn, Spec

SettlesFor(w, u) == (Active(w) /\ job[w] = u) ~> (status[u] # "processing" \/ ~up)

LEMMA EachClaimSettles ==
    ASSUME "db" \notin Faults, NEW w \in Workers, NEW u \in Updates
    PROVE  Spec /\ HolderGoesOn(u) => SettlesFor(w, u)
<1>1. /\ Falls(9, 8, u) /\ Falls(8, 7, u) /\ Falls(7, 6, u)
      /\ Falls(6, 5, u) /\ Falls(5, 4, u) /\ Falls(4, 3, u)
      /\ Falls(3, 2, u) /\ Falls(2, 1, u) /\ Falls(1, 0, u)
  BY OneStepLess
<1>2. Spec /\ HolderGoesOn(u) => (Within(9, u) ~> Within(6, u) \/ Settled(u))
  BY <1>1, PTL DEF Falls
<1>3. Spec /\ HolderGoesOn(u) => (Within(6, u) ~> Within(3, u) \/ Settled(u))
  BY <1>1, PTL DEF Falls
<1>4. Spec /\ HolderGoesOn(u) => (Within(3, u) ~> Within(0, u) \/ Settled(u))
  BY <1>1, PTL DEF Falls
<1>5. ~Within(0, u)
  BY WithinBounds
<1>6. ClaimInv /\ Active(w) /\ job[w] = u => Within(9, u) \/ Settled(u)
  BY WithinBounds DEF ClaimInv, NoneAbandoned, Active, Holding, Settled
<1>7. Settled(u) => status[u] # "processing" \/ ~up
  BY DEF Settled
<1>8. QED
  BY <1>2, <1>3, <1>4, <1>5, <1>6, <1>7, ClaimInvariant, PTL DEF SettlesFor

THEOREM ClaimsSettle ==
    ASSUME "db" \notin Faults
    PROVE  Spec /\ (\A u \in Updates : HolderGoesOn(u)) => ClaimSettles
<1> SUFFICES ASSUME Spec, \A u \in Updates : HolderGoesOn(u)
             PROVE  ClaimSettles
  OBVIOUS
<1>1. \A w \in Workers : \A u \in Updates : SettlesFor(w, u)
  BY EachClaimSettles
<1>2. QED
  BY <1>1 DEF SettlesFor, ClaimSettles

-----------------------------------------------------------------------------
(* The startup recovery comes to every pending update that it can see.      *)

\* The recovery query's limit would leave no pending receipt out.
BatchHolds == IsFiniteSet(Recoverable) /\ Cardinality(Recoverable) <= RecoveryBatch

\* Update u is to be read or visited by the recovery, and pending since.
Awaits(u) == up /\ u \in stored /\ (pc[Recovery] = "starting" \/ u \in todo)
PendingFor(u) == status[u] = "pending" /\ Awaits(u)
Retried(u) == status[u] # "pending" \/ ~up

LEMMA LoadCovers ==
    ASSUME Structure, BatchHolds, "db" \notin Faults, RecoveryLoad
    PROVE  Recoverable \subseteq todo'
<1>1. PICK S \in SUBSET Recoverable :
          /\ S # Recoverable => Cardinality(S) = RecoveryBatch
          /\ todo' = S
  BY DEF RecoveryLoad
<1>2. /\ IsFiniteSet(S)
      /\ S # Recoverable => Cardinality(S) < Cardinality(Recoverable)
      /\ Cardinality(S) \in Nat /\ Cardinality(Recoverable) \in Nat
  BY <1>1, FS_Subset, FS_CardinalityType DEF BatchHolds
<1>3. QED
  BY <1>1, <1>2, ReceiptsAssumption DEF BatchHolds

LEMMA PendingForStays ==
    ASSUME Structure, BatchHolds, "db" \notin Faults, NEW u \in Updates, PendingFor(u), [Next]_vars
    PROVE  PendingFor(u)' \/ Retried(u)'
<1> SUFFICES ASSUME status'[u] = "pending", up' PROVE Awaits(u)'
  BY DEF PendingFor, Retried
<1> USE DEF PendingFor, Awaits
<1>1. u \in stored'
  BY DEF Next, HandlerStep, WorkerStep, RecoveryStep, Receive, HandlerClaim, HandlerSkips, Ingest,
         IngestFails, WorkWithoutAgent, Renew, RenewFails, RenewLost, AgentReplySent,
         AgentReplyFails, CompleteReceipt, ReleaseReceipt, Finalize, RecoveryLoad, RecoveryClaim,
         RecoveryRun, Confirm, Crash, Restart, Tick, vars
<1>2. CASE RecoveryLoad
  BY <1>1, <1>2, LoadCovers DEF Recoverable
<1>3. ASSUME NEW v \in Updates, RecoveryClaim(v)
      PROVE  Awaits(u)'
  <2>1. u # v
    BY <1>3 DEF RecoveryClaim, ClaimReceipt, Claimable, Structure, TypeOK
  <2>2. u \in todo'
    BY <1>3, <2>1 DEF RecoveryClaim
  <2> QED BY <1>1, <2>2
<1>4. CASE todo' = todo /\ (pc[Recovery] = "starting" => pc'[Recovery] = "starting")
  BY <1>1, <1>4
<1>5. ASSUME NEW w \in Workers, WorkerStep(w) \/ HandlerStep(w)
      PROVE  todo' = todo /\ (pc[Recovery] = "starting" => pc'[Recovery] = "starting")
  <2>1. todo' = todo
    BY <1>5
    DEF HandlerStep, WorkerStep, Receive, HandlerClaim, HandlerSkips, Ingest, IngestFails,
        WorkWithoutAgent, Renew, RenewFails, RenewLost, AgentReplySent, AgentReplyFails,
        CompleteReceipt, ReleaseReceipt, Finalize
  <2>2. pc' = pc \/ (pc[w] # "starting" /\ \E place : pc' = [pc EXCEPT ![w] = place])
    <3>1. CASE WorkerStep(w)
      BY <3>1
      DEF WorkerStep, AgentReplySent, AgentReplyFails, CompleteReceipt, ReleaseReceipt,
          Finalize, GoIdle
    <3>2. CASE HandlerStep(w)
      BY <3>2
      DEF HandlerStep, Receive, HandlerClaim, ClaimReceipt, HandlerSkips, GoIdle, Ingest,
          IngestFails, WorkWithoutAgent, Renew, RenewFails, RenewLost
    <3> QED BY <1>5, <3>1, <3>2
  <2> QED BY <2>1, <2>2 DEF Structure, TypeOK, Workers
<1>6. QED
  BY <1>2, <1>3, <1>4, <1>5
  DEF Next, RecoveryStep, RecoveryRun, Confirm, Crash, Restart, Tick, vars, workerVars, Workers

\* The recovery goes on to each entry that it has read: its loop has no other end.
RecoveryReaches(u) == []<>~Awaits(u) \/ []<><<RecoveryLoad \/ RecoveryClaim(u)>>_vars

RetriedFor(u) == Spec /\ []BatchHolds /\ RecoveryReaches(u)
    => ((pc[Recovery] = "starting" /\ u \in Recoverable) ~> (status[u] # "pending" \/ ~up))

LEMMA StartsOnce ==
    ASSUME Structure, up, [Next]_vars, pc'[Recovery] = "starting"
    PROVE  pc[Recovery] = "starting" /\ ~RecoveryLoad
<1> USE DEF Structure, TypeOK, Workers
<1>1. ASSUME NEW w \in Workers, WorkerStep(w) \/ HandlerStep(w)
      PROVE  pc' = pc \/ \E place \in {"received", "claimed", "running", "completing", "releasing", "idle"} :
                            pc' = [pc EXCEPT ![w] = place]
  <2>1. CASE WorkerStep(w)
    BY <2>1
    DEF WorkerStep, AgentReplySent, AgentReplyFails, CompleteReceipt, ReleaseReceipt,
        Finalize, GoIdle
  <2>2. CASE HandlerStep(w)
    BY <2>2
    DEF HandlerStep, Receive, HandlerClaim, ClaimReceipt, HandlerSkips, GoIdle, Ingest,
        IngestFails, WorkWithoutAgent, Renew, RenewFails, RenewLost
  <2> QED BY <1>1, <2>1, <2>2
<1>2. CASE \E w \in Workers : WorkerStep(w) \/ HandlerStep(w)
  <2>1. pc[Recovery] = "starting"
    BY <1>1, <1>2
  <2>2. ~RecoveryLoad
    BY DEF RecoveryLoad
  <2> QED BY <2>1, <2>2
<1>3. CASE RecoveryStep
  BY <1>3
  DEF RecoveryStep, RecoveryLoad, RecoveryClaim, ClaimReceipt, RecoveryRun, workerVars
<1>4. CASE Crash
  BY <1>4 DEF Crash
<1>5. CASE UNCHANGED pc
  BY <1>5 DEF RecoveryLoad
<1>6. QED
  BY <1>2, <1>3, <1>4, <1>5 DEF Next, Confirm, Restart, Tick, vars, workerVars

LEMMA EachIsRetried ==
    ASSUME "db" \notin Faults, NEW u \in Updates
    PROVE  RetriedFor(u)
<1> DEFINE Unread == PendingFor(u) /\ pc[Recovery] = "starting"
           Read == PendingFor(u) /\ pc[Recovery] # "starting"
           Visit == RecoveryLoad \/ RecoveryClaim(u)
<1>1. Structure /\ BatchHolds /\ Unread /\ [Next]_vars => Unread' \/ Read' \/ Retried(u)'
  BY PendingForStays
<1>2. Structure /\ BatchHolds /\ Read /\ [Next]_vars => Read' \/ Retried(u)'
  BY PendingForStays, StartsOnce DEF PendingFor, Awaits
<1>3. Structure /\ BatchHolds /\ Unread /\ [Next]_vars /\ <<Visit>>_vars => Read' \/ Retried(u)'
  <2>1. pc[Recovery] = "starting" => ~RecoveryClaim(u)
    BY DEF RecoveryClaim
  <2> QED BY <2>1, PendingForStays, StartsOnce DEF PendingFor, Awaits
<1>4. Structure /\ Read /\ <<Visit>>_vars => Retried(u)'
  <2>1. Structure /\ RecoveryClaim(u) /\ status[u] = "pending" => status'[u] = "processing"
    BY DEF RecoveryClaim, ClaimReceipt, Claimable, Structure, TypeOK
  <2>2. pc[Recovery] # "starting" => ~RecoveryLoad
    BY DEF RecoveryLoad
  <2> QED BY <2>1, <2>2 DEF PendingFor, Retried
<1>5. PendingFor(u) => Awaits(u)
  BY DEF PendingFor
<1>6. Unread \/ Read => PendingFor(u)
  OBVIOUS
<1>7. Structure /\ pc[Recovery] = "starting" /\ u \in Recoverable => Unread \/ Retried(u)
  BY DEF PendingFor, Awaits, Recoverable, Retried
<1>8. Retried(u) => status[u] # "pending" \/ ~up
  BY DEF Retried
<1> HIDE DEF Unread, Read, Visit
<1>9. Spec /\ []BatchHolds /\ ([]<>~Awaits(u) \/ []<><<Visit>>_vars) => (Unread ~> Read \/ Retried(u))
  BY <1>1, <1>3, <1>5, <1>6, StructureInvariant, PTL DEF Spec
<1>10. Spec /\ []BatchHolds /\ ([]<>~Awaits(u) \/ []<><<Visit>>_vars) => (Read ~> Retried(u))
  BY <1>2, <1>4, <1>5, <1>6, StructureInvariant, PTL DEF Spec
<1>11. Spec /\ []BatchHolds /\ ([]<>~Awaits(u) \/ []<><<Visit>>_vars)
       => ((pc[Recovery] = "starting" /\ u \in Recoverable) ~> (status[u] # "pending" \/ ~up))
  BY <1>7, <1>8, <1>9, <1>10, StructureInvariant, PTL
<1>12. QED
  BY <1>11 DEF RetriedFor, RecoveryReaches, Visit

\* Every receipt that the startup query can see is claimed again, or settled, or
\* the process dies, if there are at no time more of them than the query's limit.
THEOREM PendingAreRetried ==
    ASSUME "db" \notin Faults
    PROVE  Spec /\ []BatchHolds /\ (\A u \in Updates : RecoveryReaches(u)) => PendingIsRetried
<1> SUFFICES ASSUME Spec, []BatchHolds, \A u \in Updates : RecoveryReaches(u)
             PROVE  PendingIsRetried
  OBVIOUS
<1>1. \A u \in Updates : RetriedFor(u)
  BY EachIsRetried
<1>2. QED
  BY <1>1 DEF RetriedFor, PendingIsRetried

=============================================================================
