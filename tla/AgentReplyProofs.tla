-------------------------- MODULE AgentReplyProofs -----------------------
(***************************************************************************)
(* Theorems about the agent's runs and the delivery of their answers, for  *)
(* all updates, turns, budgets and bounds on the rounds, attempts, faults  *)
(* and crashes.                                                            *)
(***************************************************************************)
EXTENDS AgentReply, SetLemmas

-----------------------------------------------------------------------------
(* The run: the strengthening of its invariants.                           *)

\* While calls are executed, what the current turn still has to do and what it
\* has got answers for add up to the turn.
CurrentTurn(turn) ==
    /\ turn \in DOMAIN exchanges
    /\ exchanges[turn].role = "assistant"
    /\ \A j \in turn + 1 .. Len(exchanges) : exchanges[j].role = "tool"
    /\ exchanges[turn].calls = Len(exchanges) - turn + Len(todo)

Calling ==
    phase = "calling" =>
        /\ todo # <<>> /\ round < MaxRounds
        /\ \E turn \in DOMAIN exchanges : CurrentTurn(turn)

\* Executions are counted by what the run remembers, effects by what the store
\* remembers.
ExecutionsCounted ==
    \A c \in Calls : executed[c] = IF c \in called THEN 1 ELSE 0

StoreCounted ==
    /\ \A key \in invoked : key[2] \in Calls
    /\ effects \in [Calls -> 0 .. 2]
    /\ \A c \in Calls : effects[c] = IF Invocation(c) \in invoked THEN 1 ELSE 0

\* The size of the input messages S.
SizeOf(S) == SumOf(InputSize, S)

\* The input messages that were removed.
Gone == (1 .. history.length) \ kept

\* The removed messages are the oldest of the removable ones, and the newest of
\* them did not fit.
Trimmed ==
    phase \in {"fitting", "asking", "calling"} =>
        /\ removable = kept \cap Removable(history)
        /\ Gone \subseteq Removable(history)
        /\ \A i \in Gone, j \in removable : i < j
        /\ Gone # {} => load + SizeOf(kept \cup {Max(Gone)}) > Budget
        /\ phase = "asking" => load + SizeOf(kept) <= Budget

LoopInv ==
    /\ LoopTypeOK
    /\ EveryCallAnswered
    /\ Calling /\ ExecutionsCounted /\ StoreCounted /\ Trimmed

-----------------------------------------------------------------------------
(* What the operators of the run compute.                                  *)

Messages == [role : {"assistant"}, calls : Nat] \cup [role : {"tool"}, call : Nat]

\* The sums of sizes are numbers.
LEMMA SizesAreNumbers ==
    ASSUME LoopTypeOK, NEW S \in SUBSET (1 .. history.length)
    PROVE  /\ SizeOf(S) \in Nat
           /\ ContextSize(S) = load + SizeOf(S)
           /\ ContextSize(S) \in Nat
<1>1. history \in Histories /\ history.length \in Nat
  BY AgentAssumption DEF LoopTypeOK
<1>2. IsFiniteSet(S)
  <2>1. IsFiniteSet(1 .. history.length)
    BY <1>1, FS_Interval
  <2>2. QED
    BY <2>1, FS_Subset
<1>3. \A i \in S : InputSize[i] \in Nat
  BY <1>1, AgentAssumption
<1>4. SizeOf(S) \in Nat
  BY <1>2, <1>3, SumInNat DEF SizeOf
<1>5. ContextSize(S) = load + SizeOf(S)
  BY DEF ContextSize, SizeOf, SumOf
<1>6. QED
  BY <1>4, <1>5 DEF LoopTypeOK

\* What a run removes is the shortest old part of what may be removed that
\* makes the rest fit.
LEMMA ExcessIsShortest ==
    ASSUME LoopTypeOK, ContextSize(kept \ Excess) <= Budget
    PROVE  /\ Excess \subseteq removable
           /\ \A i \in Excess, j \in removable \ Excess : i < j
           /\ Excess # {} =>
                 \E last \in Excess :
                    /\ \A i \in Excess : i <= last
                    /\ ContextSize(kept \ (Excess \ {last})) > Budget
<1> DEFINE until(i) == {j \in removable : j <= i}
           prefixes == {{}} \cup {until(i) : i \in removable}
           enough == {P \in prefixes : ContextSize(kept \ P) <= Budget}
<1>1. /\ history.length \in Nat /\ kept \in SUBSET (1 .. history.length)
      /\ removable \in SUBSET (0 .. history.length) /\ removable \in SUBSET Nat
  BY AgentAssumption DEF LoopTypeOK
<1>2. Excess = IF enough = {} THEN removable
               ELSE CHOOSE P \in enough : \A Q \in enough : P \subseteq Q
  BY DEF Excess
<1>3. enough # {}
  <2>1. SUFFICES ASSUME enough = {} PROVE FALSE
    OBVIOUS
  <2>2. removable \notin prefixes
    BY <1>2, <2>1
  <2>3. PICK last \in removable : \A y \in removable : y <= last
    BY <1>1, <2>2, GreatestOf
  <2>4. until(last) = removable
    BY <2>3
  <2>5. QED
    BY <2>2, <2>4
<1>4. \E P \in enough : \A Q \in enough : P \subseteq Q
  <2>1. CASE {} \in enough
    BY <2>1
  <2>2. CASE {} \notin enough
    <3> DEFINE fits == {i \in removable : until(i) \in enough}
    <3>1. \A Q \in enough : \E i \in fits : Q = until(i)
      BY <2>2
    <3>2. fits # {} /\ fits \in SUBSET Nat
      BY <1>1, <1>3, <3>1
    <3>3. PICK first \in fits : \A i \in fits : first <= i
      BY <3>2, LeastOf
    <3>4. \A i \in fits : until(first) \subseteq until(i)
      <4>1. \A i \in fits, j \in removable : j <= first => j <= i
        BY <1>1, <3>3
      <4>2. QED
        BY <4>1
    <3>5. until(first) \in enough
      OBVIOUS
    <3>6. \A Q \in enough : until(first) \subseteq Q
      <4>1. TAKE Q \in enough
      <4>2. PICK i \in fits : Q = until(i)
        BY <3>1
      <4>3. QED
        BY <3>4, <4>2
    <3>7. QED
      BY <3>5, <3>6
  <2>3. QED
    BY <2>1, <2>2
<1>5. Excess \in enough /\ \A Q \in enough : Excess \subseteq Q
  BY <1>2, <1>3, <1>4
<1>6. CASE Excess = {}
  BY <1>6
<1>7. ASSUME NEW last \in removable, Excess = until(last)
      PROVE  /\ Excess \subseteq removable
             /\ \A i \in Excess, j \in removable \ Excess : i < j
             /\ last \in Excess /\ \A i \in Excess : i <= last
             /\ ContextSize(kept \ (Excess \ {last})) > Budget
  <2>1. \A i \in removable : i \in Excess <=> i <= last
    BY <1>7
  <2>2. /\ Excess \subseteq removable
        /\ \A i \in Excess, j \in removable \ Excess : i < j
        /\ last \in Excess /\ \A i \in Excess : i <= last
    BY <1>1, <1>7, <2>1
  <2> DEFINE shorter == Excess \ {last}
  <2>3. shorter \in prefixes
    <3>1. CASE shorter = {}
      BY <3>1
    <3>2. CASE shorter # {}
      <4>1. PICK p \in shorter : \A y \in shorter : y <= p
        BY <1>1, <2>2, <3>2, GreatestOf
      <4>2. \A j \in removable : j \in shorter <=> j <= p
        BY <1>1, <2>1, <2>2, <4>1
      <4>3. until(p) = shorter /\ p \in removable
        BY <2>2, <4>1, <4>2
      <4>4. QED
        BY <4>3
    <3>3. QED
      BY <3>1, <3>2
  <2>4. shorter \notin enough
    BY <1>5, <2>2
  <2>5. ContextSize(kept \ shorter) \in Nat /\ Budget \in Nat
    BY <1>1, SizesAreNumbers, AgentAssumption, kept \ shorter \in SUBSET (1 .. history.length)
  <2>6. QED
    BY <2>2, <2>3, <2>4, <2>5
<1>8. Excess = {} \/ \E last \in removable : Excess = until(last)
  BY <1>5
<1>9. QED
  BY <1>6, <1>7, <1>8

\* The answer to the call is the next one of the turn.
LEMMA CurrentCallIs ==
    ASSUME LoopTypeOK, NEW turn, CurrentTurn(turn)
    PROVE  CurrentCall = Len(exchanges) - turn + 1 /\ CurrentCall \in Nat
<1>1. /\ Len(exchanges) \in Nat /\ DOMAIN exchanges = 1 .. Len(exchanges)
      /\ \A i \in DOMAIN exchanges : exchanges[i] \in Messages
  BY DEF LoopTypeOK, Messages
<1> DEFINE turns == {i \in DOMAIN exchanges : ~Answered(i)}
<1>2. turn \in turns /\ turns \in SUBSET Int /\ \A i \in turns : i <= turn
  BY <1>1 DEF CurrentTurn, Answered
<1>3. Max(turns) = turn
  BY <1>2, MaxIs
<1>4. turn \in 1 .. Len(exchanges)
  BY <1>1 DEF CurrentTurn
<1>5. QED
  BY <1>1, <1>3, <1>4 DEF CurrentCall

-----------------------------------------------------------------------------
(* The run: every step preserves the strengthening.                        *)

LEMMA InitLoop == LoopInit => LoopInv
<1> SUFFICES ASSUME LoopInit PROVE LoopInv
  OBVIOUS
<1>1. LoopTypeOK
  <2>1. exchanges \in Seq(Messages) /\ todo \in Seq(Calls) /\ round \in 0 .. MaxRounds
        /\ attempt \in 0 .. MaxAttempts
    BY AgentAssumption DEF LoopInit
  <2>2. /\ phase = "ended" <=> outcome # "none"
        /\ outcome \in Outcomes
    BY DEF LoopInit, Outcomes
  <2>3. effects \in [Calls -> 0 .. 2] /\ executed \in [Calls -> 0 .. 2]
    BY DEF LoopInit
  <2>4. QED
    BY <2>1, <2>2, <2>3 DEF LoopInit, LoopTypeOK, Messages
<1>2. EveryCallAnswered /\ Calling /\ ExecutionsCounted /\ StoreCounted /\ Trimmed
  BY DEF LoopInit, EveryCallAnswered, Calling, ExecutionsCounted, StoreCounted, Trimmed
<1>3. QED
  BY <1>1, <1>2 DEF LoopInv

LEMMA FrameLoop ==
    ASSUME LoopInv, UNCHANGED loopVars
    PROVE  LoopInv'
<1>1. /\ UNCHANGED <<history, mode, phase, kept, removable, exchanges, load, round, called,
                     todo, expired, outcome, attempt, invoked, effects, executed>>
  BY DEF loopVars, contextVars, turnVars, storeVars
<1>2. LoopTypeOK' /\ EveryCallAnswered' /\ Calling' /\ ExecutionsCounted' /\ StoreCounted'
  BY <1>1
  DEF LoopInv, LoopTypeOK, EveryCallAnswered, Calling, CurrentTurn, ExecutionsCounted,
      StoreCounted, Invocation
<1>3. Trimmed'
  BY <1>1 DEF LoopInv, Trimmed, Gone
<1>4. QED
  BY <1>2, <1>3 DEF LoopInv

\* A tool's effect is counted under its invocation.
LEMMA EffectCounted ==
    ASSUME LoopInv, NEW c \in Calls, ToolEffect(c), history' = history
    PROVE  StoreCounted'
<1>1. CASE UNCHANGED storeVars
  BY <1>1 DEF LoopInv, StoreCounted, Invocation, storeVars
<1>2. CASE /\ Invocation(c) \notin invoked
           /\ invoked' = invoked \cup {Invocation(c)}
           /\ effects' = [effects EXCEPT ![c] = Min({2, @ + 1})]
  <2>1. effects[c] = 0 /\ Min({2, 0 + 1}) = 1
    BY <1>2, MinOfTwo DEF LoopInv, StoreCounted
  <2>2. effects' = [effects EXCEPT ![c] = 1]
    BY <1>2, <2>1 DEF LoopInv, StoreCounted
  <2>3. \A d \in Calls : Invocation(d) = Invocation(c) <=> d = c
    BY DEF Invocation
  <2>4. \A key \in invoked' : key[2] \in Calls
    BY <1>2 DEF LoopInv, StoreCounted, Invocation
  <2>5. \A d \in Calls : Invocation(d)' = Invocation(d)
    BY DEF Invocation
  <2>6. \A d \in Calls : effects'[d] = IF Invocation(d)' \in invoked' THEN 1 ELSE 0
    BY <1>2, <2>2, <2>3, <2>5 DEF LoopInv, StoreCounted
  <2>7. effects' \in [Calls -> 0 .. 2]
    BY <2>2 DEF LoopInv, StoreCounted
  <2>8. QED
    BY <2>4, <2>6, <2>7 DEF StoreCounted
<1>3. QED
  BY <1>1, <1>2 DEF ToolEffect

\* A run that ends or is forgotten leaves only what the store has.
LEMMA FreshLoop ==
    ASSUME LoopInv, Fresh, StoreCounted',
           UNCHANGED <<history, mode, attempt>>,
           phase' \in {"idle", "ended"}, expired' \in BOOLEAN, outcome' \in Outcomes,
           phase' = "ended" <=> outcome' # "none"
    PROVE  LoopInv'
<1>1. LoopTypeOK'
  BY AgentAssumption DEF Fresh, LoopInv, LoopTypeOK, StoreCounted
<1>2. EveryCallAnswered' /\ Calling' /\ ExecutionsCounted' /\ Trimmed'
  BY DEF Fresh, EveryCallAnswered, Calling, ExecutionsCounted, Trimmed
<1>3. QED
  BY <1>1, <1>2 DEF LoopInv

LEMMA EndLoop ==
    ASSUME LoopInv, NEW o \in Outcomes \ {"none"}, End(o), StoreCounted'
    PROVE  LoopInv'
  BY FreshLoop DEF End, LoopInv, LoopTypeOK

LEMMA StoreFrame ==
    ASSUME LoopInv, UNCHANGED storeVars, history' = history
    PROVE  StoreCounted'
  BY DEF LoopInv, StoreCounted, Invocation, storeVars

\* What was removed stays removed for a reason when the messages grow.
LEMMA TrimmedGrows ==
    ASSUME LoopInv, phase \in {"fitting", "asking", "calling"}, phase' # "asking",
           UNCHANGED <<history, kept, removable>>, load' \in Nat, load' >= load
    PROVE  Trimmed'
<1>1. /\ history.length \in Nat /\ kept \in SUBSET (1 .. history.length)
      /\ Gone \in SUBSET (0 .. history.length) /\ Gone \subseteq 1 .. history.length
  BY AgentAssumption DEF LoopInv, LoopTypeOK, Gone
<1>2. Gone' = Gone
  BY DEF Gone
<1>3. ASSUME Gone # {}
      PROVE  load' + SizeOf(kept \cup {Max(Gone)}) > Budget
  <2>1. Max(Gone) \in Gone
    <3>1. PICK x \in Gone : \A y \in Gone : y <= x
      BY <1>1, <1>3, GreatestOf
    <3>2. Max(Gone) = x
      BY <1>1, <3>1, MaxIs, Gone \in SUBSET Int
    <3>3. QED
      BY <3>2
  <2>2. kept \cup {Max(Gone)} \in SUBSET (1 .. history.length)
    BY <1>1, <2>1
  <2>3. SizeOf(kept \cup {Max(Gone)}) \in Nat
    BY <2>2, SizesAreNumbers DEF LoopInv
  <2>4. load + SizeOf(kept \cup {Max(Gone)}) > Budget /\ load \in Nat /\ Budget \in Nat
    BY <1>3, AgentAssumption DEF LoopInv, Trimmed, LoopTypeOK
  <2>5. QED
    BY <2>3, <2>4
<1>4. QED
  BY <1>2, <1>3 DEF LoopInv, Trimmed

LEMMA ForgetLoop ==
    ASSUME LoopInv, Forget
    PROVE  LoopInv'
<1>1. StoreCounted'
  BY StoreFrame DEF Forget
<1>2. QED
  BY <1>1, FreshLoop DEF Forget, Outcomes

LEMMA BeginLoop ==
    ASSUME LoopInv, NEW m \in Modes, Begin(m)
    PROVE  LoopInv'
<1>1. history' = history /\ history.length \in Nat
  BY AgentAssumption DEF Begin, LoopInv, LoopTypeOK
<1>2. StoreCounted'
  BY StoreFrame DEF Begin
<1>3. LoopTypeOK'
  <2>1. exchanges' \in Seq(Messages) /\ todo' \in Seq(Calls) /\ round' \in 0 .. MaxRounds
        /\ attempt' \in 0 .. MaxAttempts
    BY AgentAssumption DEF Begin, LoopInv, LoopTypeOK
  <2>2. kept' \subseteq 1 .. history'.length /\ removable' \subseteq kept'
    BY <1>1 DEF Begin, Removable
  <2>3. phase' = "ended" <=> outcome' # "none"
    BY DEF Begin
  <2>4. outcome' \in Outcomes /\ executed' \in [Calls -> 0 .. 2]
    BY DEF Begin, Outcomes
  <2>5. QED
    BY <1>1, <1>2, <2>1, <2>2, <2>3, <2>4
    DEF Begin, LoopInv, LoopTypeOK, StoreCounted, Messages
<1>4. EveryCallAnswered' /\ Calling' /\ ExecutionsCounted'
  BY DEF Begin, EveryCallAnswered, Calling, ExecutionsCounted
<1>5. Trimmed'
  BY <1>1 DEF Begin, Trimmed, Gone, Removable
<1>6. QED
  BY <1>2, <1>3, <1>4, <1>5 DEF LoopInv

LEMMA FitLoop ==
    ASSUME LoopInv, Fit
    PROVE  LoopInv'
<1>1. CASE End("context_limit")
  BY <1>1, EndLoop, StoreFrame DEF Fit, End, Outcomes
<1>2. CASE /\ ContextSize(kept \ Excess) <= Budget
           /\ kept' = kept \ Excess /\ removable' = removable \ Excess
           /\ phase' = "asking"
           /\ UNCHANGED <<exchanges, load, turnVars, expired, outcome, history,
                          mode, attempt, executed, storeVars>>
  <2>1. /\ Excess \subseteq removable
        /\ \A i \in Excess, j \in removable \ Excess : i < j
        /\ Excess # {} =>
              \E last \in Excess : /\ \A i \in Excess : i <= last
                                   /\ ContextSize(kept \ (Excess \ {last})) > Budget
    BY <1>2, ExcessIsShortest DEF LoopInv
  <2>2. phase = "fitting"
    BY DEF Fit
  <2>3. LoopTypeOK'
    BY <1>2, <2>1, <2>2 DEF LoopInv, LoopTypeOK, turnVars, storeVars
  <2>4. EveryCallAnswered'
    BY <1>2, <2>2 DEF LoopInv, EveryCallAnswered
  <2>5. Calling' /\ ExecutionsCounted'
    BY <1>2 DEF LoopInv, Calling, ExecutionsCounted, turnVars
  <2>6. StoreCounted'
    BY <1>2, StoreFrame
  <2>7. Trimmed'
    <3>1. /\ history.length \in Nat /\ kept \in SUBSET (1 .. history.length)
          /\ removable = kept \cap Removable(history) /\ Gone \subseteq Removable(history)
          /\ \A i \in Gone, j \in removable : i < j
      BY <2>2, AgentAssumption DEF LoopInv, LoopTypeOK, Trimmed
    <3>2. Gone' = Gone \cup Excess /\ history' = history /\ load' = load
      BY <1>2, <2>1, <3>1 DEF Gone
    <3>3. /\ removable' = kept' \cap Removable(history')
          /\ Gone' \subseteq Removable(history')
      BY <1>2, <2>1, <3>1, <3>2
    <3>4. \A i \in Gone', j \in removable' : i < j
      BY <1>2, <2>1, <3>1, <3>2
    <3>5. load + SizeOf(kept') <= Budget
      BY <1>2, <3>1, SizesAreNumbers, kept' \in SUBSET (1 .. history.length) DEF LoopInv
    <3>6. ASSUME Gone' # {}
          PROVE  load + SizeOf(kept' \cup {Max(Gone')}) > Budget
      <4>1. CASE Excess = {}
        <5>1. kept' = kept /\ Gone' = Gone
          BY <1>2, <3>2, <4>1
        <5>2. QED
          BY <2>2, <3>6, <5>1 DEF LoopInv, Trimmed
      <4>2. CASE Excess # {}
        <5>1. PICK last \in Excess : /\ \A i \in Excess : i <= last
                                     /\ ContextSize(kept \ (Excess \ {last})) > Budget
          BY <2>1, <4>2
        <5>2. \A i \in Gone' : i <= last
          <6>1. last \in Int /\ Gone \subseteq Int
            BY <2>1, <3>1 DEF Gone
          <6>2. \A i \in Gone : i < last
            BY <2>1, <3>1
          <6>3. \A i \in Gone : i <= last
            BY <6>1, <6>2
          <6>4. QED
            BY <3>2, <5>1, <6>3, Zenon
        <5>3. Max(Gone') = last
          <6>1. Gone' \in SUBSET Int
            BY <2>1, <3>1, <3>2 DEF Gone
          <6>2. QED
            BY <3>2, <5>2, <6>1, MaxIs
        <5>4. kept' \cup {last} = kept \ (Excess \ {last})
          BY <1>2, <2>1, <3>1
        <5>5. kept \ (Excess \ {last}) \in SUBSET (1 .. history.length)
          BY <3>1
        <5>6. QED
          BY <5>1, <5>3, <5>4, <5>5, SizesAreNumbers DEF LoopInv
      <4>3. QED
        BY <4>1, <4>2
    <3>7. QED
      BY <3>2, <3>3, <3>4, <3>5, <3>6 DEF Trimmed
  <2>8. QED
    BY <2>3, <2>4, <2>5, <2>6, <2>7 DEF LoopInv
<1>3. QED
  BY <1>1, <1>2 DEF Fit

LEMMA ChatFailsLoop ==
    ASSUME LoopInv, NEW kind \in Failures, ChatFails(kind)
    PROVE  LoopInv'
  BY EndLoop, StoreFrame DEF ChatFails, End, Outcomes, Failures

LEMMA ChatRepliesLoop ==
    ASSUME LoopInv, ChatReplies
    PROVE  LoopInv'
  BY EndLoop, StoreFrame DEF ChatReplies, End, Outcomes

LEMMA ChatCallsLoop ==
    ASSUME LoopInv, NEW t \in Turns, ChatCalls(t)
    PROVE  LoopInv'
<1>1. CASE End("round_limit") \/ End("provider_protocol")
  BY <1>1, EndLoop, StoreFrame DEF ChatCalls, End, Outcomes, Failures
<1>2. CASE /\ round < MaxRounds
           /\ exchanges' = Append(exchanges, CallMessage(Len(t)))
           /\ load' = load + Len(t)
           /\ todo' = t
           /\ phase' = "calling"
           /\ UNCHANGED <<kept, removable, round, called, history, mode, expired,
                          outcome, attempt, executed, storeVars>>
  <2>1. t \in Seq(Calls) /\ t # <<>> /\ Len(t) \in Nat /\ phase = "asking"
    BY AgentAssumption DEF ChatCalls
  <2> DEFINE n == Len(exchanges)
  <2>2. /\ exchanges \in Seq(Messages) /\ n \in Nat
        /\ CallMessage(Len(t)) \in Messages
    BY <2>1 DEF LoopInv, LoopTypeOK, Messages, CallMessage
  <2>3. /\ exchanges' \in Seq(Messages) /\ Len(exchanges') = n + 1
        /\ \A i \in 1 .. n : exchanges'[i] = exchanges[i]
        /\ exchanges'[n + 1] = CallMessage(Len(t))
    BY <1>2, <2>2
  <2>4. LoopTypeOK'
    BY <1>2, <2>1, <2>3 DEF LoopInv, LoopTypeOK, Messages, storeVars
  <2>5. EveryCallAnswered'
    <3>1. ASSUME NEW i \in 1 .. n, exchanges[i].role = "assistant"
          PROVE  LET last == i + exchanges[i].calls IN
                 /\ last \in Nat /\ last <= n
                 /\ \A j \in i + 1 .. last : exchanges[j] = ToolMessage(j - i)
                 /\ last < n => exchanges[last + 1].role = "assistant"
      <4> DEFINE last == i + exchanges[i].calls
      <4>1. exchanges[i].calls \in Nat /\ last \in Nat
        BY <2>2, <3>1 DEF Messages
      <4>2. /\ \A j \in i + 1 .. Min({last, n}) : exchanges[j] = ToolMessage(j - i)
            /\ last < n => exchanges[last + 1].role = "assistant"
            /\ last <= n
        BY <2>1, <2>2, <3>1, i \in DOMAIN exchanges DEF LoopInv, EveryCallAnswered
      <4>3. Min({last, n}) = last
        <5>1. last \in Int /\ n \in Int /\ last <= n
          BY <2>2, <4>1, <4>2
        <5> HIDE DEF last, n
        <5>2. QED
          BY <5>1, MinOfTwo
      <4>4. QED
        BY <4>1, <4>2, <4>3
    <3>2. ASSUME NEW i \in DOMAIN exchanges', exchanges'[i].role = "assistant"
          PROVE  LET last == i + exchanges'[i].calls IN
                 /\ \A j \in i + 1 .. Min({last, n + 1}) : exchanges'[j] = ToolMessage(j - i)
                 /\ last < n + 1 => exchanges'[last + 1].role = "assistant"
      <4>1. CASE i \in 1 .. n
        <5> DEFINE last == i + exchanges[i].calls
        <5>1. /\ last \in Nat /\ last <= n
              /\ \A j \in i + 1 .. last : exchanges[j] = ToolMessage(j - i)
              /\ last < n => exchanges[last + 1].role = "assistant"
          BY <2>3, <3>1, <3>2, <4>1
        <5>2. last = i + exchanges'[i].calls /\ Min({last, n + 1}) = last
          BY <2>2, <2>3, <4>1, <5>1, MinOfTwo
        <5>3. \A j \in i + 1 .. last : exchanges'[j] = ToolMessage(j - i)
          BY <2>2, <2>3, <4>1, <5>1
        <5>4. exchanges'[last + 1].role = "assistant"
          <6>1. CASE last < n
            BY <2>2, <2>3, <5>1, <6>1, last + 1 \in 1 .. n
          <6>2. CASE last = n
            BY <2>3, <6>2 DEF CallMessage
          <6>3. QED
            BY <2>2, <5>1, <6>1, <6>2
        <5>5. QED
          BY <5>2, <5>3, <5>4
      <4>2. CASE i = n + 1
        <5>1. exchanges'[i].calls = Len(t)
          BY <2>3, <4>2 DEF CallMessage
        <5>2. Min({i + Len(t), n + 1}) = n + 1
          BY <2>1, <2>2, <4>2, MinOfTwo
        <5>3. QED
          BY <2>1, <2>2, <4>2, <5>1, <5>2
      <4>3. i \in 1 .. n \/ i = n + 1
        BY <2>2, <2>3
      <4>4. QED
        BY <4>1, <4>2, <4>3
    <3>3. QED
      BY <1>2, <2>3, <3>2 DEF EveryCallAnswered, ToolMessage
  <2>6. Calling'
    BY <1>2, <2>1, <2>2, <2>3 DEF Calling, CurrentTurn, CallMessage
  <2>7. ExecutionsCounted' /\ StoreCounted'
    BY <1>2, StoreFrame DEF LoopInv, ExecutionsCounted
  <2>8. Trimmed'
    BY <1>2, <2>1, TrimmedGrows DEF LoopInv, LoopTypeOK
  <2>9. QED
    BY <2>4, <2>5, <2>6, <2>7, <2>8 DEF LoopInv
<1>3. QED
  BY <1>1, <1>2 DEF ChatCalls

\* The answer to a call is the next one of the last turn.
LEMMA AnswerLoop ==
    ASSUME LoopInv, phase = "calling", NEW size \in ResultSizes, Answer(size),
           StoreCounted', ExecutionsCounted', called' \subseteq Calls,
           executed' \in [Calls -> 0 .. 2]
    PROVE  LoopInv'
<1> DEFINE n == Len(exchanges)
           answer == ToolMessage(CurrentCall)
<1>1. PICK turn \in DOMAIN exchanges : CurrentTurn(turn)
  BY DEF LoopInv, Calling
<1>2. /\ exchanges \in Seq(Messages) /\ n \in Nat /\ turn \in 1 .. n
      /\ DOMAIN exchanges = 1 .. n
  BY <1>1 DEF LoopInv, LoopTypeOK, Messages
<1>3. CurrentCall = n + 1 - turn /\ CurrentCall \in Nat
  BY <1>1, <1>2, CurrentCallIs DEF LoopInv
<1>4. answer \in Messages /\ answer.role = "tool"
  BY <1>3 DEF ToolMessage, Messages
<1>5. /\ exchanges' = Append(exchanges, answer)
      /\ load' = load + size
      /\ todo' = Tail(todo)
      /\ IF todo' = <<>> THEN phase' = "fitting" /\ round' = round + 1
         ELSE UNCHANGED <<phase, round>>
      /\ UNCHANGED <<kept, removable, history, mode, expired, outcome, attempt>>
  BY DEF Answer
<1>6. /\ exchanges' \in Seq(Messages) /\ Len(exchanges') = n + 1
      /\ DOMAIN exchanges' = 1 .. n + 1
      /\ \A i \in 1 .. n : exchanges'[i] = exchanges[i]
      /\ exchanges'[n + 1] = answer
  BY <1>2, <1>4, <1>5
<1>7. /\ todo \in Seq(Calls) /\ todo # <<>> /\ round < MaxRounds
      /\ round \in 0 .. MaxRounds
  BY DEF LoopInv, LoopTypeOK, Calling
<1>8. todo' \in Seq(Calls) /\ Len(todo') = Len(todo) - 1 /\ Len(todo) \in Nat \ {0}
  BY <1>5, <1>7
<1>9. phase' = "fitting" \/ phase' = "calling"
  BY <1>5
<1>10. size \in Nat /\ load \in Nat
  BY AgentAssumption DEF LoopInv, LoopTypeOK
<1> HIDE DEF answer, n
<1>11. LoopTypeOK'
  <2>1. round' \in 0 .. MaxRounds
    BY <1>5, <1>7, AgentAssumption
  <2>2. phase' = "ended" <=> outcome' # "none"
    BY <1>5, <1>9 DEF LoopInv, LoopTypeOK
  <2>3. load' \in Nat
    BY <1>5, <1>10
  <2>4. QED
    BY <1>5, <1>6, <1>8, <1>9, <2>1, <2>2, <2>3
    DEF LoopInv, LoopTypeOK, StoreCounted, Messages
<1>12. exchanges[turn].role = "assistant"
       /\ exchanges[turn].calls = n - turn + Len(todo)
       /\ \A j \in turn + 1 .. n : exchanges[j].role = "tool"
  BY <1>1 DEF CurrentTurn, n
<1>13. ASSUME NEW i \in 1 .. n, exchanges[i].role = "assistant"
       PROVE  /\ \A j \in i + 1 .. Min({i + exchanges[i].calls, n}) :
                    exchanges[j] = ToolMessage(j - i)
              /\ i + exchanges[i].calls < n =>
                    exchanges[i + exchanges[i].calls + 1].role = "assistant"
              /\ exchanges[i].calls \in Nat
  <2>1. exchanges[i].calls \in Nat
    BY <1>2, <1>13 DEF Messages
  <2>2. QED
    BY <1>2, <1>13, <2>1 DEF LoopInv, EveryCallAnswered, n
<1>14. ASSUME NEW i \in 1 .. n, exchanges[i].role = "assistant", i # turn
       PROVE  i + exchanges[i].calls < turn
  <2> DEFINE last == i + exchanges[i].calls
  <2>0. i \in Nat /\ turn \in Nat /\ n \in Nat /\ exchanges[i].calls \in Nat
    <3>1. exchanges[i].calls \in Nat
      BY <1>13, <1>14
    <3>2. QED
      BY <1>2, <3>1
  <2>1. i < turn
    <3>1. ~(i \in turn + 1 .. n)
      BY <1>12, <1>14
    <3>2. QED
      BY <1>2, <1>14, <2>0, <3>1
  <2>2. last \in Nat
    BY <2>0
  <2>3. SUFFICES ASSUME last >= turn PROVE FALSE
    BY <1>2, <2>2
  <2>4. turn <= Min({last, n})
    BY <1>2, <2>2, <2>3, MinOfTwo
  <2>5. Min({last, n}) \in Int
    BY <1>2, <2>2, MinOfTwo
  <2>6. exchanges[turn] = ToolMessage(turn - i)
    BY <1>2, <1>13, <1>14, <2>1, <2>4, <2>5
  <2>7. QED
    BY <1>12, <2>6 DEF ToolMessage
<1>15. EveryCallAnswered'
  <2>1. ASSUME NEW i \in 1 .. n + 1, exchanges'[i].role = "assistant"
        PROVE  /\ \A j \in i + 1 .. Min({i + exchanges'[i].calls, n + 1}) :
                     exchanges'[j] = ToolMessage(j - i)
               /\ i + exchanges'[i].calls < n + 1 =>
                     exchanges'[i + exchanges'[i].calls + 1].role = "assistant"
               /\ phase' = "fitting" => i + exchanges'[i].calls <= n + 1
    <3>1. i \in 1 .. n /\ exchanges'[i] = exchanges[i] /\ exchanges[i].role = "assistant"
      BY <1>2, <1>4, <1>6, <2>1
    <3> DEFINE last == i + exchanges[i].calls
    <3>2. last \in Nat /\ i \in Nat /\ i <= last
      <4>1. exchanges[i].calls \in Nat
        BY <1>13, <3>1
      <4>2. i \in Nat
        BY <1>2, <3>1
      <4>3. QED
        BY <4>1, <4>2
    <3>6. /\ \A j \in i + 1 .. Min({last, n}) : exchanges[j] = ToolMessage(j - i)
          /\ last < n => exchanges[last + 1].role = "assistant"
      BY <1>13, <3>1
    <3> HIDE DEF last
    <3>3. CASE i # turn
      <4>1. last < turn /\ turn <= n
        BY <1>2, <1>14, <3>1, <3>3 DEF last
      <4>2. Min({last, n}) = last /\ Min({last, n + 1}) = last
        BY <1>2, <3>2, <4>1, MinOfTwo
      <4>3. \A j \in i + 1 .. last : exchanges'[j] = ToolMessage(j - i)
        <5>1. \A j \in i + 1 .. last : exchanges[j] = ToolMessage(j - i)
          BY <3>6, <4>2
        <5>2. \A j \in i + 1 .. last : j \in 1 .. n
          BY <1>2, <3>2, <4>1
        <5>3. QED
          BY <1>6, <5>1, <5>2
      <4>4. exchanges'[last + 1].role = "assistant"
        <5>1. last < n /\ last + 1 \in 1 .. n
          BY <1>2, <3>2, <4>1
        <5>2. exchanges'[last + 1] = exchanges[last + 1]
          BY <1>6, <5>1
        <5>3. QED
          BY <3>6, <5>1, <5>2
      <4>5. last <= n + 1
        BY <1>2, <3>2, <4>1
      <4>6. i + exchanges'[i].calls = last
        BY <3>1 DEF last
      <4>7. QED
        BY <4>2, <4>3, <4>4, <4>5, <4>6
    <3>4. CASE i = turn
      <4>1. last = n + Len(todo)
        BY <1>2, <1>8, <1>12, <3>4 DEF last
      <4>2. Min({last, n}) = n /\ Min({last, n + 1}) = n + 1 /\ ~(last < n + 1)
        BY <1>2, <1>8, <3>2, <4>1, MinOfTwo
      <4>3. \A j \in i + 1 .. n : exchanges'[j] = ToolMessage(j - i)
        <5>1. \A j \in i + 1 .. n : exchanges[j] = ToolMessage(j - i)
          BY <3>6, <4>2
        <5>2. \A j \in i + 1 .. n : j \in 1 .. n
          BY <1>2, <3>2
        <5>3. QED
          BY <1>6, <5>1, <5>2
      <4>4. exchanges'[n + 1] = ToolMessage(n + 1 - i)
        BY <1>3, <1>6, <3>4 DEF answer
      <4>5. phase' = "fitting" => last <= n + 1
        <5>1. phase' = "fitting" => todo' = <<>>
          BY <1>5
        <5>2. todo' = <<>> => Len(todo) = 1
          BY <1>8
        <5>3. phase' = "fitting" => last = n + 1
          BY <4>1, <5>1, <5>2
        <5>4. last = n + 1 => last <= n + 1
          BY <1>2
        <5>5. QED
          BY <5>3, <5>4
      <4>6. \A j \in i + 1 .. n + 1 : j \in i + 1 .. n \/ j = n + 1
        BY <1>2, <3>2
      <4>7. \A j \in i + 1 .. n + 1 : exchanges'[j] = ToolMessage(j - i)
        <5>1. ASSUME NEW j \in i + 1 .. n + 1
              PROVE  exchanges'[j] = ToolMessage(j - i)
          <6>1. CASE j \in i + 1 .. n
            BY <4>3, <6>1
          <6>2. CASE j = n + 1
            <7>1. exchanges'[j] = exchanges'[n + 1]
              BY <1>2, <3>2, <6>2
            <7>2. j - i = n + 1 - i
              BY <1>2, <3>2, <6>2
            <7>3. QED
              BY <4>4, <7>1, <7>2, Zenon
          <6>3. QED
            BY <4>6, <6>1, <6>2
        <5>2. QED
          BY <5>1
      <4>8. i + exchanges'[i].calls = last
        BY <3>1 DEF last
      <4>9. QED
        BY <4>2, <4>5, <4>7, <4>8
    <3>5. QED
      BY <3>3, <3>4
  <2>2. phase' # "asking"
    BY <1>9
  <2>3. QED
    BY <1>6, <2>1, <2>2 DEF EveryCallAnswered, ToolMessage
<1>16. Calling'
  <2>1. SUFFICES ASSUME phase' = "calling"
                 PROVE  todo' # <<>> /\ round' < MaxRounds /\ CurrentTurn(turn)'
    BY <1>2, <1>6 DEF Calling
  <2>2. todo' # <<>> /\ round' = round
    BY <1>5, <2>1
  <2>3. \A j \in turn + 1 .. n + 1 : exchanges'[j].role = "tool"
    BY <1>2, <1>4, <1>6, <1>12
  <2>4. exchanges'[turn].calls = n + 1 - turn + Len(todo')
    BY <1>2, <1>6, <1>8, <1>12
  <2>5. QED
    BY <1>2, <1>6, <1>7, <1>12, <2>2, <2>3, <2>4 DEF CurrentTurn
<1>17. Trimmed'
  BY <1>5, <1>9, <1>10, TrimmedGrows
<1>18. QED
  BY <1>11, <1>15, <1>16, <1>17 DEF LoopInv

LEMMA RefuseCallLoop ==
    ASSUME LoopInv, NEW size \in ResultSizes, RefuseCall(size)
    PROVE  LoopInv'
<1>1. StoreCounted'
  BY StoreFrame DEF RefuseCall, Answer
<1>2. ExecutionsCounted' /\ called' \subseteq Calls /\ executed' \in [Calls -> 0 .. 2]
  BY DEF RefuseCall, LoopInv, LoopTypeOK, ExecutionsCounted
<1>3. QED
  BY <1>1, <1>2, AnswerLoop DEF RefuseCall

\* The call that comes next is one the model may make.
LEMMA HeadIsCall ==
    ASSUME LoopInv, phase = "calling"
    PROVE  Head(todo) \in Calls
  BY DEF LoopInv, LoopTypeOK, Calling

LEMMA ExecuteCallLoop ==
    ASSUME LoopInv, NEW size \in ResultSizes, ExecuteCall(size)
    PROVE  LoopInv'
<1> DEFINE c == Head(todo)
<1>1. c \in Calls /\ phase = "calling" /\ history' = history
  BY HeadIsCall DEF ExecuteCall, Answer
<1>2. StoreCounted'
  BY <1>1, EffectCounted DEF ExecuteCall
<1>3. /\ called' = called \cup {c} /\ c \notin called
      /\ executed' = [executed EXCEPT ![c] = Min({2, @ + 1})]
  BY DEF ExecuteCall, Accepted, Remembered
<1>4. executed[c] = 0 /\ Min({2, 0 + 1}) = 1
  BY <1>1, <1>3, MinOfTwo DEF LoopInv, ExecutionsCounted
<1>5. executed' = [executed EXCEPT ![c] = 1]
  BY <1>1, <1>3, <1>4 DEF LoopInv, LoopTypeOK
<1>6. ExecutionsCounted' /\ called' \subseteq Calls /\ executed' \in [Calls -> 0 .. 2]
  BY <1>1, <1>3, <1>5 DEF LoopInv, LoopTypeOK, ExecutionsCounted
<1>7. QED
  BY <1>1, <1>2, <1>6, AnswerLoop DEF ExecuteCall

LEMMA ExecuteTooLongLoop ==
    ASSUME LoopInv, ExecuteTooLong
    PROVE  LoopInv'
<1>1. StoreCounted'
  BY HeadIsCall, EffectCounted DEF ExecuteTooLong, End
<1>2. QED
  BY <1>1, EndLoop DEF ExecuteTooLong, Outcomes, Failures

LEMMA CallTooLateLoop ==
    ASSUME LoopInv, CallTooLate
    PROVE  LoopInv'
  BY EndLoop, StoreFrame DEF CallTooLate, End, Outcomes, Failures

LEMMA ExpireLoop ==
    ASSUME LoopInv, Expire
    PROVE  LoopInv'
<1>1. /\ UNCHANGED <<history, mode, phase, kept, removable, exchanges, load, round, called,
                     todo, outcome, attempt, invoked, effects, executed>>
      /\ expired' = TRUE
  BY DEF Expire, contextVars, turnVars, storeVars
<1>2. LoopTypeOK' /\ EveryCallAnswered' /\ Calling' /\ ExecutionsCounted' /\ StoreCounted'
  BY <1>1
  DEF LoopInv, LoopTypeOK, EveryCallAnswered, Calling, CurrentTurn, ExecutionsCounted,
      StoreCounted, Invocation
<1>3. Trimmed'
  BY <1>1 DEF LoopInv, Trimmed, Gone
<1>4. QED
  BY <1>2, <1>3 DEF LoopInv

-----------------------------------------------------------------------------
(* The delivery: the strengthening of its invariants.                      *)

\* The handler's place and the sender's and the run's belong together.
Places ==
    /\ step = "rendering" => attempt < MaxAttempts
    /\ step = "waiting" => placeholder = 0
    /\ step = "delivering" => sending # "no"
    /\ step \in {"waiting", "starting", "rendering"} => phase = "idle"
    /\ step # "waiting" /\ needs = "nothing" => command # "none"
    /\ step # "waiting" => ~done
    /\ sending \in {"no", "edit", "plain edit"} \/ placeholder = 0

\* What was shown before anything was reported wrongly.
Known == ~unreported => late = {} /\ overwritten = {}

\* The delivery was reported as done, now or when the receipt was completed.
Reported == sending = "sent" \/ (done /\ command = "none")

\* An answer was shown where it is reported, and its row is written.
Delivered ==
    /\ Reported => Answers # {}
    /\ ~unsaved /\ placeholder # 0 => rows[placeholder] # "none"
    /\ ~unsaved /\ Reported => \E m \in Answers : rows[m] = "final"

\* No answer before the first is reported, and then no other.
Single ==
    ~unreported /\ crashes = 0 =>
        /\ sending # "sent" /\ ~done => Finals = {}
        /\ \A m, n \in Finals : m = n

\* Without failures there is one message, which goes through the texts.
Tidy ==
    ~unreported /\ ~refused /\ crashes = 0 =>
        /\ step = "waiting" /\ ~done => shown = <<>>
        /\ step \in {"starting", "rendering", "running"} => Len(shown) = 1 /\ placeholder = 1
        /\ step = "delivering" => sending \in {"edit", "plain edit", "sent"}
        /\ sending \in {"edit", "plain edit"} => Len(shown) = 1 /\ placeholder = 1
        /\ sending = "sent" \/ done => shown = <<"final">>

DeliveryInv ==
    /\ TypeOK /\ Places /\ Known /\ Delivered /\ Single /\ Tidy

IInv == LoopInv /\ DeliveryInv

-----------------------------------------------------------------------------
(* What the requests to Telegram do.                                       *)

LEMMA ChatTypes ==
    ASSUME DeliveryTypeOK
    PROVE  /\ shown \in Seq(Texts) /\ rows \in Seq(Texts \cup {"none"})
           /\ Len(shown) \in Nat /\ Len(rows) = Len(shown)
           /\ DOMAIN shown = 1 .. Len(shown)
           /\ placeholder \in 0 .. Len(shown)
<1>1. /\ shown \in Seq(Texts) /\ rows \in Seq(Texts \cup {"none"})
      /\ Len(rows) = Len(shown) /\ placeholder \in 0 .. Len(shown)
  BY DEF DeliveryTypeOK
<1>2. QED
  BY <1>1

Failing ==
    /\ unreported \in BOOLEAN /\ refused \in BOOLEAN /\ unsaved \in BOOLEAN
    /\ faults \in 0 .. MaxFaults

LEMMA NotedTypes ==
    ASSUME DeliveryTypeOK, NEW result \in Results, NEW saved \in BOOLEAN,
           NEW excused \in BOOLEAN, Noted(result, saved, excused)
    PROVE  Failing'
<1>1. faults' \in 0 .. MaxFaults
  <2>1. faults' = faults \/ (faults < MaxFaults /\ faults' = faults + 1)
    BY Zenon DEF Noted
  <2>2. faults \in 0 .. MaxFaults /\ MaxFaults \in Nat
    BY DeliveryAssumption DEF DeliveryTypeOK
  <2>3. QED
    BY <2>1, <2>2
<1>2. unreported' \in BOOLEAN /\ refused' \in BOOLEAN /\ unsaved' \in BOOLEAN
  BY Zenon DEF Noted, DeliveryTypeOK
<1>3. QED
  BY <1>1, <1>2 DEF Failing

\* A new message comes after the others, with its row.
Posted(text, row) ==
    /\ shown' \in Seq(Texts) /\ rows' \in Seq(Texts \cup {"none"})
    /\ Len(shown') = Len(shown) + 1 /\ Len(rows') = Len(shown) + 1
    /\ \A i \in 1 .. Len(shown) : shown'[i] = shown[i] /\ rows'[i] = rows[i]
    /\ shown'[Len(shown) + 1] = text /\ rows'[Len(shown) + 1] = row

LEMMA PostEffect ==
    ASSUME DeliveryTypeOK, NEW text \in Texts, NEW result \in Results, NEW saved \in BOOLEAN,
           NEW excused \in BOOLEAN, Post(text, result, saved, excused), result # "refused"
    PROVE  Posted(text, IF result = "done" /\ saved THEN text ELSE "none")
<1> DEFINE row == IF result = "done" /\ saved THEN text ELSE "none"
<1>1. shown' = Append(shown, text) /\ rows' = Append(rows, row)
  BY DEF Post
<1>2. row \in Texts \cup {"none"}
  OBVIOUS
<1>3. shown \in Seq(Texts) /\ rows \in Seq(Texts \cup {"none"}) /\ Len(rows) = Len(shown)
  BY DEF DeliveryTypeOK
<1> HIDE DEF row
<1>4. Posted(text, row)
  BY <1>1, <1>2, <1>3 DEF Posted
<1>5. QED
  BY <1>4 DEF row

\* An edit replaces the text of one message and of its row.
Edited(m, text, result, saved) ==
    /\ shown' \in Seq(Texts) /\ rows' \in Seq(Texts \cup {"none"})
    /\ Len(shown') = Len(shown) /\ Len(rows') = Len(shown)
    /\ \A i \in 1 .. Len(shown) : i # m => shown'[i] = shown[i] /\ rows'[i] = rows[i]
    /\ shown'[m] = IF result \in {"done", "unreported"} THEN text ELSE shown[m]
    /\ rows'[m] = IF result = "done" /\ saved /\ rows[m] # "none" THEN text ELSE rows[m]

LEMMA EditEffect ==
    ASSUME DeliveryTypeOK, NEW m \in 1 .. Len(shown), NEW text \in Texts,
           NEW result \in Results, NEW saved \in BOOLEAN,
           NEW excused \in BOOLEAN, EditMessage(m, text, result, saved, excused)
    PROVE  /\ Edited(m, text, result, saved)
           /\ late' \subseteq [message : 1 .. Len(shown'), text : Texts]
           /\ ~unreported' => late' = late
           /\ overwritten' = overwritten
<1>1. shown \in Seq(Texts) /\ rows \in Seq(Texts \cup {"none"}) /\ Len(rows) = Len(shown)
  BY DEF DeliveryTypeOK
<1>2. /\ shown' \in Seq(Texts) /\ Len(shown') = Len(shown)
      /\ \A i \in 1 .. Len(shown) : i # m => shown'[i] = shown[i]
      /\ shown'[m] = IF result \in {"done", "unreported"} THEN text ELSE shown[m]
  <2>1. CASE result \in {"done", "unreported"}
    <3>1. shown' = [shown EXCEPT ![m] = text]
      BY <2>1 DEF EditMessage
    <3>2. QED
      BY <1>1, <2>1, <3>1
  <2>2. CASE result \notin {"done", "unreported"}
    BY <1>1, <2>2 DEF EditMessage
  <2>3. QED
    BY <2>1, <2>2
<1>3. /\ rows' \in Seq(Texts \cup {"none"}) /\ Len(rows') = Len(shown)
      /\ \A i \in 1 .. Len(shown) : i # m => rows'[i] = rows[i]
      /\ rows'[m] = IF result = "done" /\ saved /\ rows[m] # "none" THEN text ELSE rows[m]
  <2>1. CASE result = "done" /\ saved /\ rows[m] # "none"
    <3>1. rows' = [rows EXCEPT ![m] = text]
      BY <2>1 DEF EditMessage
    <3>2. QED
      BY <1>1, <2>1, <3>1
  <2>2. CASE ~(result = "done" /\ saved /\ rows[m] # "none")
    <3>1. rows' = rows
      BY <2>2 DEF EditMessage
    <3>2. QED
      BY <1>1, <2>2, <3>1
  <2>3. QED
    BY <2>1, <2>2
<1>4. late' \subseteq [message : 1 .. Len(shown'), text : Texts]
  <2>1. late' = late \/ late' = late \cup {[message |-> m, text |-> text]}
    BY DEF EditMessage
  <2>2. [message |-> m, text |-> text] \in [message : 1 .. Len(shown), text : Texts]
    OBVIOUS
  <2>3. late \subseteq [message : 1 .. Len(shown), text : Texts]
    BY DEF DeliveryTypeOK
  <2>4. Len(shown') = Len(shown)
    BY <1>2
  <2>5. QED
    BY <2>1, <2>2, <2>3, <2>4
<1>5. ~unreported' => late' = late
  BY DEF EditMessage, Noted
<1>6. QED
  BY <1>2, <1>3, <1>4, <1>5 DEF Edited, EditMessage

-----------------------------------------------------------------------------
(* The delivery: every step preserves the strengthening.                   *)

LEMMA InitDelivery == Init /\ LoopInv => DeliveryInv
<1> SUFFICES ASSUME Init, LoopInv PROVE DeliveryInv
  OBVIOUS
<1>1. DeliveryTypeOK
  <2>1. shown = <<>> /\ rows = <<>> /\ placeholder = 0 /\ late = {} /\ overwritten = {}
        /\ sending = "no" /\ markup \in Markups /\ faults = 0
    BY DEF Init, DeliveryInit, Markups
  <2>2. badMarkup \in BOOLEAN /\ unreported \in BOOLEAN /\ refused \in BOOLEAN
        /\ unsaved \in BOOLEAN
    BY Zenon DEF Init, DeliveryInit
  <2>3. QED
    BY <2>1, <2>2, DeliveryAssumption DEF DeliveryTypeOK
<1>2. TypeOK
  <2>1. crashes \in 0 .. MaxCrashes
    BY CrashAssumption DEF Init
  <2>2. QED
    BY <1>1, <2>1 DEF Init, LoopInit, DeliveryInit, LoopInv, TypeOK
<1>3. Finals = {} /\ Answers = {}
  BY DEF Init, DeliveryInit, Finals, Answers
<1>4. Places /\ Known /\ Delivered /\ Single /\ Tidy
  BY <1>3 DEF Init, LoopInit, DeliveryInit, Places, Known, Delivered, Reported, Single, Tidy
<1>5. QED
  BY <1>2, <1>4 DEF DeliveryInv

\* Nothing the chat has shown changes.
LEMMA SameChat ==
    ASSUME DeliveryInv, UNCHANGED <<shown, overwritten>>
    PROVE  Finals' = Finals /\ Answers' = Answers
BY DEF Finals, Answers

\* A run that goes on or begins, without a request to Telegram.
LEMMA QuietDelivery ==
    ASSUME DeliveryInv, LoopInv', UNCHANGED <<deliveryVars, private, command, done, crashes>>,
           needs' = "reply" \/ (step # "waiting" /\ needs' = needs),
           step \in {"starting", "running"} \/ (step = "waiting" /\ crashes > 0), ~done,
           step' = "running"
    PROVE  DeliveryInv'
<1>1. /\ UNCHANGED <<shown, rows, placeholder, late, overwritten, sending, markup, badMarkup,
                     unreported, refused, unsaved, faults>>
      /\ UNCHANGED <<private, command, done, crashes>>
  BY DEF deliveryVars, failureVars
<1>2. DeliveryTypeOK' /\ sending = "no"
  BY <1>1 DEF DeliveryInv, TypeOK, DeliveryTypeOK
<1>3. TypeOK'
  BY <1>1, <1>2 DEF DeliveryInv, TypeOK, LoopInv
<1>4. Places' /\ Known'
  BY <1>1, <1>2 DEF DeliveryInv, Places, Known
<1>5. Finals' = Finals /\ Answers' = Answers
  BY <1>1, SameChat
<1>6. Delivered' /\ Single'
  BY <1>1, <1>5 DEF DeliveryInv, Delivered, Reported, Single
<1>7. Tidy'
  BY <1>1, <1>2 DEF DeliveryInv, Tidy, Places, TypeOK
<1>8. QED
  BY <1>3, <1>4, <1>6, <1>7 DEF DeliveryInv

\* A text that is delivered begins as an edit or a new message.
LEMMA DeliverDelivery ==
    ASSUME DeliveryInv, LoopInv', NEW p \in Markups, NEW bad \in BOOLEAN, Deliver(p, bad),
           UNCHANGED <<private, command, needs, done, crashes>>,
           step \in {"rendering", "running"}, step' = "delivering"
    PROVE  DeliveryInv'
<1>1. /\ UNCHANGED <<shown, rows, placeholder, late, overwritten,
                     unreported, refused, unsaved, faults>>
      /\ UNCHANGED <<private, command, needs, done, crashes>>
      /\ sending = "no" /\ sending' = IF placeholder # 0 THEN "edit" ELSE "post"
      /\ ~done
  BY DEF Deliver, failureVars, DeliveryInv, Places
<1>2. markup' \in Markups /\ badMarkup' \in BOOLEAN
  BY Zenon DEF Deliver, Markups
<1>3. DeliveryTypeOK'
  BY <1>1, <1>2 DEF DeliveryInv, TypeOK, DeliveryTypeOK
<1>4. TypeOK'
  BY <1>1, <1>3 DEF DeliveryInv, TypeOK, LoopInv
<1>5. Places' /\ Known'
  BY <1>1 DEF DeliveryInv, Places, Known
<1>6. Finals' = Finals /\ Answers' = Answers
  BY <1>1, SameChat
<1>7. Delivered' /\ Single'
  BY <1>1, <1>6 DEF DeliveryInv, Delivered, Reported, Single
<1>8. Tidy'
  BY <1>1 DEF DeliveryInv, Tidy, TypeOK
<1>9. QED
  BY <1>4, <1>5, <1>7, <1>8 DEF DeliveryInv

\* The execution is over: the placeholder is forgotten.
LEMMA AbandonDelivery ==
    ASSUME DeliveryInv, LoopInv', Abandon, Forget, step' = "waiting",
           UNCHANGED <<private, command>>, done' \in BOOLEAN,
           crashes' \in 0 .. MaxCrashes, crashes' >= crashes,
           (done' /\ command = "none") => Reported, needs' = "reply",
           crashes' = 0 => step = "delivering" /\ sending \in {"sent", "failed"},
           crashes' = 0 /\ ~done' => sending # "sent"
    PROVE  DeliveryInv'
<1>1. /\ UNCHANGED <<shown, rows, late, overwritten, unreported, refused, unsaved, faults>>
      /\ sending' = "no" /\ placeholder' = 0 /\ markup' = "plain" /\ badMarkup' = FALSE
      /\ phase' = "idle" /\ crashes \in 0 .. MaxCrashes
  BY DEF Abandon, Forget, failureVars, DeliveryInv, TypeOK
<1>2. DeliveryTypeOK'
  <2>1. badMarkup' \in BOOLEAN /\ markup' \in Markups
    BY <1>1, Zenon DEF Markups
  <2>2. /\ UNCHANGED <<shown, rows, late, overwritten, unreported, refused, unsaved, faults>>
        /\ sending' = "no" /\ placeholder' = 0
    BY <1>1
  <2>3. placeholder' \in 0 .. Len(shown')
    BY <2>2, ChatTypes DEF DeliveryInv, TypeOK
  <2>4. QED
    BY <2>1, <2>2, <2>3 DEF DeliveryInv, TypeOK, DeliveryTypeOK
<1>3. TypeOK'
  BY <1>1, <1>2 DEF DeliveryInv, TypeOK, LoopInv
<1>4. Places' /\ Known'
  BY <1>1 DEF DeliveryInv, Places, Known
<1>5. Finals' = Finals /\ Answers' = Answers
  BY <1>1, SameChat
<1>6. crashes' = 0 => crashes = 0
  BY <1>1
<1>7. Delivered'
  BY <1>1, <1>5 DEF DeliveryInv, Delivered, Reported
<1>8. Single'
  BY <1>1, <1>5, <1>6 DEF DeliveryInv, Single, Places
<1>9. Tidy'
  BY <1>1, <1>6 DEF DeliveryInv, Tidy, Places
<1>10. QED
  BY <1>3, <1>4, <1>7, <1>8, <1>9 DEF DeliveryInv

\* The placeholder is shown, or it is not known that it was.
LEMMA HandleDelivery ==
    ASSUME DeliveryInv, LoopInv', NEW result \in Results, NEW saved \in BOOLEAN,
           Handle(result, saved)
    PROVE  DeliveryInv'
<1> DEFINE n == Len(shown)
           row == IF result = "done" /\ saved THEN "thinking" ELSE "none"
<1>1. /\ step = "waiting" /\ ~done /\ attempt < MaxAttempts
      /\ step' \in {"rendering", "starting"} /\ needs' \in {"reply", "nothing"}
      /\ needs' = "nothing" => command # "none"
      /\ Post("thinking", result, saved, FALSE)
      /\ placeholder' = IF result = "done" THEN Len(shown') ELSE 0
      /\ UNCHANGED <<sending, markup, badMarkup, late, overwritten>>
      /\ UNCHANGED <<private, command, done, crashes, phase, attempt>>
  BY DEF Handle, Move, WithThinking, Post, loopVars
<1>2. /\ DeliveryTypeOK /\ n \in Nat /\ sending = "no" /\ placeholder = 0 /\ phase = "idle"
      /\ shown \in Seq(Texts) /\ Len(rows) = n
  <2>1. DeliveryTypeOK
    BY DEF DeliveryInv, TypeOK
  <2>2. sending = "no" /\ placeholder = 0 /\ phase = "idle"
    BY <1>1 DEF DeliveryInv, TypeOK, Places
  <2>3. QED
    BY <2>1, <2>2, ChatTypes
<1>3. Failing'
  BY <1>1, <1>2, NotedTypes, FALSE \in BOOLEAN DEF Post
<1>4. result # "refused" => Posted("thinking", row)
  BY <1>1, <1>2, PostEffect, "thinking" \in Texts, FALSE \in BOOLEAN DEF Texts
<1>5. result = "refused" => shown' = shown /\ rows' = rows
  BY <1>1 DEF Post
<1> HIDE DEF row
<1>6. /\ shown' \in Seq(Texts) /\ rows' \in Seq(Texts \cup {"none"})
      /\ Len(rows') = Len(shown') /\ Len(shown') \in n .. n + 1
      /\ \A i \in 1 .. n : shown'[i] = shown[i] /\ rows'[i] = rows[i]
      /\ \A i \in 1 .. Len(shown') : i \in 1 .. n \/ shown'[i] = "thinking"
  <2>1. CASE result # "refused"
    BY <1>2, <1>4, <2>1 DEF Posted
  <2>2. CASE result = "refused"
    BY <1>2, <1>5, <2>2 DEF DeliveryTypeOK
  <2>3. QED
    BY <2>1, <2>2
<1>7. DeliveryTypeOK'
  <2>1. placeholder' \in 0 .. Len(shown')
    BY <1>1, <1>2, <1>6
  <2>2. late' \subseteq [message : 1 .. Len(shown'), text : Texts]
    BY <1>1, <1>2, <1>6 DEF DeliveryTypeOK
  <2>3. overwritten' \subseteq 1 .. Len(shown')
    BY <1>1, <1>2, <1>6 DEF DeliveryTypeOK
  <2>4. QED
    BY <1>1, <1>2, <1>3, <1>6, <2>1, <2>2, <2>3 DEF DeliveryTypeOK, Failing
<1>8. TypeOK'
  BY <1>1, <1>2, <1>7 DEF DeliveryInv, TypeOK, LoopInv
<1>10. ~unreported' => ~unreported /\ result \notin {"unreported", "late"}
  BY <1>1, Zenon DEF Post, Noted
<1>11. Places' /\ Known'
  BY <1>1, <1>2, <1>10 DEF DeliveryInv, Places, Known
<1>12. Finals' = Finals /\ Answers' = Answers
  <2>1. \A i \in 1 .. Len(shown') : shown'[i] = "final" <=> i \in 1 .. n /\ shown[i] = "final"
    BY <1>6
  <2>2. Finals' = Finals
    BY <1>2, <1>6, <2>1 DEF Finals
  <2>3. QED
    BY <1>1, <2>2 DEF Answers
<1>13. Delivered'
  <2>1. ~Reported'
    BY <1>1, <1>2 DEF Reported
  <2>2. ASSUME ~unsaved', placeholder' # 0
        PROVE  rows'[placeholder'] # "none"
    <3>1. result = "done"
      BY <1>1, <2>2
    <3>2. saved
      BY <1>1, <2>2, Zenon DEF Post, Noted
    <3>3. row = "thinking" /\ placeholder' = n + 1
      BY <1>1, <1>4, <3>1, <3>2 DEF row, Posted
    <3>4. QED
      BY <1>4, <3>1, <3>3 DEF Posted
  <2>3. QED
    BY <2>1, <2>2 DEF Delivered
<1>14. Single'
  BY <1>1, <1>2, <1>10, <1>12 DEF DeliveryInv, Single
<1>15. Tidy'
  <2>1. ASSUME ~unreported', ~refused', crashes = 0
        PROVE  Len(shown') = 1 /\ placeholder' = 1
    <3>1. ~unreported /\ ~refused /\ result \notin {"unreported", "late", "refused"}
      BY <1>1, <2>1, Zenon DEF Post, Noted
    <3>2. result = "done"
      BY <3>1, DeliveryAssumption
    <3>3. shown = <<>> /\ n = 0
      BY <1>1, <2>1, <3>1 DEF DeliveryInv, Tidy
    <3>4. Len(shown') = 1
      BY <1>4, <3>2, <3>3 DEF Posted
    <3>5. QED
      BY <1>1, <3>2, <3>4
  <2>2. QED
    BY <1>1, <1>2, <2>1 DEF Tidy
<1>16. QED
  BY <1>8, <1>11, <1>13, <1>14, <1>15 DEF DeliveryInv

\* A tool that is executed reports its progress.
LEMMA WorkingDelivery ==
    ASSUME DeliveryInv, LoopInv', NEW result \in Results, NEW saved \in BOOLEAN,
           UpdateThinking(result, saved), step = "running", step' = "running",
           UNCHANGED <<private, command, needs, done, crashes>>
    PROVE  DeliveryInv'
<1> DEFINE n == Len(shown)
           m == placeholder
<1>1. CASE UNCHANGED deliveryVars
  BY <1>1, QuietDelivery DEF DeliveryInv, Places
<1>2. CASE /\ placeholder # 0
           /\ EditMessage(placeholder, "progress", result, saved, FALSE)
           /\ UNCHANGED <<placeholder, sending, markup, badMarkup>>
  <2>1. /\ DeliveryTypeOK /\ n \in Nat /\ sending = "no" /\ m \in 1 .. n /\ ~done
        /\ DOMAIN shown = 1 .. n
    <3>1. DeliveryTypeOK
      BY DEF DeliveryInv, TypeOK
    <3>2. sending = "no" /\ ~done
      BY DEF DeliveryInv, TypeOK, Places
    <3>3. QED
      BY <1>2, <3>1, <3>2, ChatTypes
  <2>2. Failing'
    BY <1>2, <2>1, NotedTypes, FALSE \in BOOLEAN DEF EditMessage
  <2>3. /\ Edited(m, "progress", result, saved)
        /\ late' \subseteq [message : 1 .. Len(shown'), text : Texts]
        /\ ~unreported' => late' = late
        /\ overwritten' = overwritten
    <3>1. "progress" \in Texts /\ FALSE \in BOOLEAN
      BY DEF Texts
    <3>2. EditMessage(m, "progress", result, saved, FALSE)
      BY <1>2
    <3>3. QED
      BY <2>1, <3>1, <3>2, EditEffect
  <2>4. ~unreported' => ~unreported
    BY <1>2, Zenon DEF EditMessage, Noted
  <2>5. ~refused' => ~refused
    BY <1>2, Zenon DEF EditMessage, Noted
  <2>6. ~unsaved' => ~unsaved
    BY <1>2, Zenon DEF EditMessage, Noted
  <2>7. Len(shown') = n /\ DOMAIN shown' = 1 .. n
    BY <2>1, <2>3 DEF Edited
  <2>8. DeliveryTypeOK'
    BY <1>2, <2>1, <2>2, <2>3 DEF DeliveryTypeOK, Failing, Edited
  <2>9. TypeOK'
    BY <2>1, <2>8, <1>2 DEF DeliveryInv, TypeOK, LoopInv
  <2>10. Places' /\ Known'
    BY <1>2, <2>1, <2>3, <2>4 DEF DeliveryInv, Places, Known
  <2>11. Finals' \subseteq Finals
    <3>1. \A i \in 1 .. n : shown'[i] = "final" => shown[i] = "final"
      BY <2>1, <2>3 DEF Edited
    <3>2. QED
      BY <2>1, <2>7, <3>1 DEF Finals
  <2>12. Delivered'
    <3>1. ~Reported'
      BY <1>2, <2>1 DEF Reported
    <3>2. ~unsaved' => rows'[m] # "none"
      BY <2>1, <2>3, <2>6 DEF Edited, DeliveryInv, Delivered
    <3>3. QED
      BY <1>2, <3>1, <3>2 DEF Delivered
  <2>13. Single'
    BY <1>2, <2>1, <2>4, <2>11 DEF DeliveryInv, Single
  <2>14. Tidy'
    BY <1>2, <2>1, <2>4, <2>5, <2>7 DEF DeliveryInv, Tidy
  <2>15. QED
    BY <2>9, <2>10, <2>12, <2>13, <2>14 DEF DeliveryInv
<1>3. QED
  BY <1>1, <1>2 DEF UpdateThinking

\* The placeholder is turned into the answer, or the next attempt is due.
LEMMA FinishThinkingDelivery ==
    ASSUME DeliveryInv, LoopInv', NEW result \in Results, NEW saved \in BOOLEAN,
           FinishThinking(result, saved), step = "delivering",
           UNCHANGED <<step, phase, attempt, private, command, needs, done, crashes>>
    PROVE  DeliveryInv'
<1> DEFINE n == Len(shown)
           m == placeholder
           excused == Formatted /\ badMarkup
<1>1. /\ sending \in {"edit", "plain edit"}
      /\ EditMessage(m, "final", result, saved, excused)
      /\ sending' = IF result = "done" THEN "sent" ELSE AfterError
      /\ placeholder' = IF sending' = "plain edit" THEN m ELSE 0
      /\ UNCHANGED <<markup, badMarkup>>
  BY DEF FinishThinking, Attempted
<1>2. /\ DeliveryTypeOK /\ n \in Nat /\ m \in 1 .. n /\ ~done
      /\ DOMAIN shown = 1 .. n
  <2>1. DeliveryTypeOK
    BY DEF DeliveryInv, TypeOK
  <2>2. placeholder # 0 /\ ~done
    BY <1>1 DEF DeliveryInv, TypeOK, Places, DeliveryTypeOK
  <2>3. QED
    BY <2>1, <2>2, ChatTypes
<1>3. excused \in BOOLEAN
  OBVIOUS
<1>4. Failing'
  BY <1>1, <1>2, <1>3, NotedTypes DEF EditMessage
<1>5. /\ Edited(m, "final", result, saved)
      /\ late' \subseteq [message : 1 .. Len(shown'), text : Texts]
      /\ ~unreported' => late' = late
      /\ overwritten' = overwritten
  BY <1>1, <1>2, <1>3, EditEffect, "final" \in Texts DEF Texts
<1>6. ~unreported' => ~unreported /\ result \notin {"unreported", "late"}
  BY <1>1, Zenon DEF EditMessage, Noted
<1>7. ~refused' => ~refused /\ (result = "refused" => excused)
  BY <1>1, Zenon DEF EditMessage, Noted
<1>8. ~unsaved' => ~unsaved /\ saved
  BY <1>1, Zenon DEF EditMessage, Noted
<1>9. /\ result # "done" => sending' \in {"plain edit", "post"}
      /\ result = "done" <=> sending' = "sent"
      /\ result # "done" /\ excused => sending' = "plain edit"
      /\ sending' \in {"sent", "plain edit", "post"}
  <2>1. sending = "edit" => AfterError = IF markup # "plain" THEN "plain edit" ELSE "post"
    BY DEF AfterError
  <2>2. sending = "plain edit" => AfterError = "post"
    BY DEF AfterError
  <2>3. excused => sending = "edit" /\ markup # "plain"
    BY <1>1 DEF Formatted
  <2> HIDE DEF excused
  <2>4. QED
    BY <1>1, <2>1, <2>2, <2>3
<1> HIDE DEF excused
<1>10. Len(shown') = n /\ DOMAIN shown' = 1 .. n
  BY <1>2, <1>5 DEF Edited
<1>11. DeliveryTypeOK'
  <2>1. placeholder' \in 0 .. Len(shown') /\ (sending' \in {"edit", "plain edit"} => placeholder' # 0)
    <3>1. placeholder' \in {0, m} /\ (sending' = "plain edit" => placeholder' = m)
      BY <1>1
    <3>2. m \in 0 .. Len(shown') /\ 0 \in 0 .. Len(shown') /\ m # 0
      BY <1>2, <1>10
    <3>3. QED
      BY <1>9, <3>1, <3>2
  <2>2. shown' \in Seq(Texts) /\ rows' \in Seq(Texts \cup {"none"}) /\ Len(rows') = Len(shown')
    BY <1>5 DEF Edited
  <2>3. overwritten' \subseteq 1 .. Len(shown')
    BY <1>2, <1>5, <1>10 DEF DeliveryTypeOK
  <2>4. markup' \in Markups /\ badMarkup' \in BOOLEAN
    BY <1>1, <1>2 DEF DeliveryTypeOK
  <2>5. sending' \in {"no", "edit", "plain edit", "post", "plain post", "sent", "failed"}
    BY <1>9
  <2>6. QED
    BY <1>4, <1>5, <2>1, <2>2, <2>3, <2>4, <2>5 DEF DeliveryTypeOK, Failing
<1>12. TypeOK'
  BY <1>9, <1>11 DEF DeliveryInv, TypeOK, LoopInv
<1>13. Places'
  BY <1>1, <1>9 DEF DeliveryInv, Places
<1>14. Known'
  BY <1>5, <1>6 DEF DeliveryInv, Known
<1>15. result = "done" => shown'[m] = "final" /\ m \in Finals' /\ m \in Answers'
  BY <1>2, <1>5, <1>10 DEF Edited, Finals, Answers
<1>16. Delivered'
  <2>1. Reported' => result = "done"
    BY <1>2, <1>9 DEF Reported
  <2>2. ~unsaved' => rows[m] # "none"
    BY <1>2, <1>8 DEF DeliveryInv, Delivered
  <2>3. ~unsaved' /\ result = "done" => rows'[m] = "final"
    BY <1>5, <1>8, <2>2 DEF Edited
  <2>4. ~unsaved' /\ placeholder' # 0 => placeholder' = m /\ rows'[m] # "none"
    BY <1>1, <1>5, <1>9, <2>2 DEF Edited
  <2>5. QED
    BY <1>15, <2>1, <2>3, <2>4 DEF Delivered
<1>17. Single'
  <2>1. SUFFICES ASSUME ~unreported', crashes = 0
                 PROVE  /\ sending' # "sent" /\ ~done => Finals' = {}
                        /\ \A i, j \in Finals' : i = j
    BY DEF Single
  <2>2. Finals = {}
    BY <1>1, <1>2, <1>6, <2>1 DEF DeliveryInv, Single
  <2>3. \A i \in 1 .. n : shown[i] # "final"
    BY <1>2, <2>2 DEF Finals
  <2>4. \A i \in 1 .. n : shown'[i] = "final" => i = m /\ result = "done"
    BY <1>2, <1>5, <1>6, <2>1, <2>3 DEF Edited
  <2>5. \A i \in Finals' : i = m /\ result = "done"
    BY <1>10, <2>4 DEF Finals
  <2>6. QED
    BY <1>9, <2>5
<1>18. Tidy'
  <2>1. ASSUME ~unreported', ~refused', crashes = 0
        PROVE  /\ sending' \in {"plain edit", "sent"}
               /\ sending' = "plain edit" => Len(shown') = 1 /\ placeholder' = 1
               /\ sending' = "sent" => shown' = <<"final">>
    <3>1. n = 1 /\ m = 1
      BY <1>1, <1>6, <1>7, <2>1 DEF DeliveryInv, Tidy
    <3>2. result \in {"done", "refused"}
      BY <1>6, <2>1, DeliveryAssumption
    <3>3. sending' \in {"plain edit", "sent"}
      BY <1>7, <1>9, <2>1, <3>2
    <3>4. sending' = "sent" => shown' = <<"final">>
      BY <1>5, <1>9, <1>10, <1>15, <3>1 DEF Edited
    <3>5. QED
      BY <1>1, <1>10, <3>1, <3>3, <3>4
  <2>2. QED
    BY <1>2, <2>1 DEF Tidy
<1>19. QED
  BY <1>12, <1>13, <1>14, <1>16, <1>17, <1>18 DEF DeliveryInv

\* The answer is sent as a new message, or the next attempt is due.
LEMMA PostFinalDelivery ==
    ASSUME DeliveryInv, LoopInv', NEW result \in Results, NEW saved \in BOOLEAN,
           PostFinal(result, saved), step = "delivering",
           UNCHANGED <<step, phase, attempt, private, command, needs, done, crashes>>
    PROVE  DeliveryInv'
<1> DEFINE n == Len(shown)
           excused == Formatted /\ badMarkup
           row == IF result = "done" /\ saved THEN "final" ELSE "none"
<1>1. /\ sending \in {"post", "plain post"}
      /\ Post("final", result, saved, excused)
      /\ sending' = IF result = "done" THEN "sent" ELSE AfterError
      /\ UNCHANGED <<markup, badMarkup, placeholder, late, overwritten>>
  BY DEF PostFinal, Attempted, Post
<1>2. /\ DeliveryTypeOK /\ n \in Nat /\ placeholder = 0 /\ ~done
      /\ DOMAIN shown = 1 .. n /\ shown \in Seq(Texts) /\ Len(rows) = n
  <2>1. DeliveryTypeOK
    BY DEF DeliveryInv, TypeOK
  <2>2. placeholder = 0 /\ ~done
    BY <1>1 DEF DeliveryInv, Places
  <2>3. QED
    BY <2>1, <2>2, ChatTypes
<1>3. excused \in BOOLEAN
  OBVIOUS
<1>4. Failing'
  BY <1>1, <1>2, <1>3, NotedTypes DEF Post
<1>5. result # "refused" => Posted("final", row)
  BY <1>1, <1>2, <1>3, PostEffect, "final" \in Texts DEF Texts
<1>6. result = "refused" => shown' = shown /\ rows' = rows
  BY <1>1 DEF Post
<1>7. ~unreported' => ~unreported /\ result \notin {"unreported", "late"}
  BY <1>1, Zenon DEF Post, Noted
<1>8. ~refused' => ~refused
  BY <1>1, Zenon DEF Post, Noted
<1>9. ~unsaved' => ~unsaved /\ saved
  BY <1>1, Zenon DEF Post, Noted
<1>10. /\ result = "done" <=> sending' = "sent"
       /\ sending' \in {"sent", "plain post", "failed"}
  BY <1>1 DEF AfterError, Formatted
<1> HIDE DEF excused
<1>11. row = "final" \/ row = "none"
  OBVIOUS
<1>12. result = "done" /\ saved => row = "final"
  OBVIOUS
<1> HIDE DEF row
<1>13. /\ shown' \in Seq(Texts) /\ rows' \in Seq(Texts \cup {"none"})
       /\ Len(rows') = Len(shown') /\ Len(shown') \in n .. n + 1
       /\ DOMAIN shown' = 1 .. Len(shown')
       /\ \A i \in 1 .. n : shown'[i] = shown[i] /\ rows'[i] = rows[i]
  <2>1. CASE result # "refused"
    BY <1>2, <1>5, <2>1 DEF Posted
  <2>2. CASE result = "refused"
    <3>1. shown' = shown /\ rows' = rows /\ rows \in Seq(Texts \cup {"none"})
      BY <1>2, <1>6, <2>2, ChatTypes
    <3>2. QED
      BY <1>2, <3>1
  <2>3. QED
    BY <2>1, <2>2
<1>14. DeliveryTypeOK'
  <2>1. placeholder' \in 0 .. Len(shown') /\ sending' \notin {"edit", "plain edit"}
    <3>1. 0 \in 0 .. Len(shown')
      <4>1. Len(shown') \in Nat
        BY <1>2, <1>13
      <4>2. QED
        BY <4>1
    <3>2. placeholder' = 0
      BY <1>1, <1>2
    <3>3. sending' \notin {"edit", "plain edit"}
      BY <1>10
    <3>4. QED
      BY <3>1, <3>2, <3>3, Zenon
  <2>2. /\ late \subseteq [message : 1 .. n, text : Texts] /\ overwritten \subseteq 1 .. n
        /\ 1 .. n \subseteq 1 .. Len(shown')
    <3>1. Len(shown') \in n .. n + 1
      BY <1>13
    <3>2. 1 .. n \subseteq 1 .. Len(shown')
      BY <1>2, <3>1
    <3>3. late \subseteq [message : 1 .. n, text : Texts] /\ overwritten \subseteq 1 .. n
      BY <1>2 DEF DeliveryTypeOK
    <3>4. QED
      BY <3>2, <3>3
  <2>3. /\ late' \subseteq [message : 1 .. Len(shown'), text : Texts]
        /\ overwritten' \subseteq 1 .. Len(shown')
    BY <1>1, <2>2
  <2>4. markup' \in Markups /\ badMarkup' \in BOOLEAN
    BY <1>1, <1>2 DEF DeliveryTypeOK
  <2>5. sending' \in {"no", "edit", "plain edit", "post", "plain post", "sent", "failed"}
    BY <1>10
  <2>6. QED
    BY <1>4, <1>13, <2>1, <2>2, <2>3, <2>4, <2>5 DEF DeliveryTypeOK, Failing
<1>15. TypeOK'
  BY <1>10, <1>14 DEF DeliveryInv, TypeOK, LoopInv
<1>16. Places'
  BY <1>1, <1>2, <1>10 DEF DeliveryInv, Places
<1>17. Known'
  BY <1>1, <1>7 DEF DeliveryInv, Known
<1>18. result = "done" => n + 1 \in Answers' /\ (saved => rows'[n + 1] = "final")
  <2>1. result = "done" => shown'[n + 1] = "final" /\ Len(shown') = n + 1 /\ rows'[n + 1] = row
    BY <1>5 DEF Posted
  <2>2. result = "done" => n + 1 \in DOMAIN shown'
    BY <1>2, <1>13, <2>1
  <2>3. QED
    BY <1>12, <2>1, <2>2 DEF Finals, Answers
<1>19. Delivered'
  BY <1>1, <1>2, <1>9, <1>10, <1>18 DEF Delivered, Reported
<1>20. Single'
  <2>1. SUFFICES ASSUME ~unreported', crashes = 0
                 PROVE  /\ sending' # "sent" /\ ~done => Finals' = {}
                        /\ \A i, j \in Finals' : i = j
    BY DEF Single
  <2>2. Finals = {}
    BY <1>1, <1>2, <1>7, <2>1 DEF DeliveryInv, Single
  <2>3. \A i \in 1 .. n : shown[i] # "final"
    BY <1>2, <2>2 DEF Finals
  <2>4. \A i \in Finals' : i = n + 1
    BY <1>2, <1>13, <2>3 DEF Finals
  <2>5. result # "done" => Finals' = Finals
    <3>1. result # "done" => shown' = shown
      BY <1>6, <1>7, <2>1, DeliveryAssumption
    <3>2. QED
      BY <3>1 DEF Finals
  <2>6. QED
    BY <1>10, <2>2, <2>4, <2>5
<1>21. Tidy'
  BY <1>1, <1>7, <1>8, Zenon DEF DeliveryInv, Tidy
<1>22. QED
  BY <1>15, <1>16, <1>17, <1>19, <1>20, <1>21 DEF DeliveryInv

\* What Telegram carries out later was reported as an error.
LEMMA LateEditDelivery ==
    ASSUME DeliveryInv, LoopInv', LateEditArrives, UNCHANGED loopVars, UNCHANGED handlerVars
    PROVE  DeliveryInv'
<1>1. PICK e \in late :
          /\ late' = late \ {e}
          /\ shown' = [shown EXCEPT ![e.message] = e.text]
          /\ overwritten' = IF shown[e.message] = "final" /\ e.text # "final"
                            THEN overwritten \cup {e.message} ELSE overwritten
          /\ UNCHANGED <<rows, placeholder, sending, markup, badMarkup, failureVars>>
  BY DEF LateEditArrives
<1>2. UNCHANGED <<private, command, step, needs, done, crashes, phase, attempt,
                  unreported, refused, unsaved, faults>>
  BY <1>1 DEF loopVars, handlerVars, failureVars
<1>3. DeliveryTypeOK /\ unreported
  BY DEF DeliveryInv, TypeOK, Known
<1>4. e.message \in 1 .. Len(shown) /\ e.text \in Texts /\ DOMAIN shown = 1 .. Len(shown)
  BY <1>3, ChatTypes DEF DeliveryTypeOK
<1>5. /\ shown' \in Seq(Texts) /\ Len(shown') = Len(shown) /\ DOMAIN shown' = 1 .. Len(shown)
      /\ \A i \in 1 .. Len(shown) : i # e.message => shown'[i] = shown[i]
      /\ shown'[e.message] = e.text
  BY <1>1, <1>3, <1>4, ChatTypes
<1>6. late' \subseteq late /\ overwritten' \subseteq 1 .. Len(shown)
  <2>1. overwritten \subseteq 1 .. Len(shown)
    BY <1>3 DEF DeliveryTypeOK
  <2>2. QED
    BY <1>1, <1>4, <2>1
<1>7. DeliveryTypeOK'
  BY <1>1, <1>2, <1>3, <1>5, <1>6 DEF DeliveryTypeOK
<1>8. TypeOK'
  BY <1>1, <1>2, <1>7 DEF DeliveryInv, TypeOK, LoopInv
<1>9. Places' /\ Known' /\ Single' /\ Tidy'
  BY <1>1, <1>2, <1>3, Zenon DEF DeliveryInv, Places, Known, Single, Tidy
<1>10. Answers \subseteq Answers'
  <2>1. ASSUME NEW i \in Finals PROVE i \in Answers'
    <3>1. i \in 1 .. Len(shown) /\ shown[i] = "final"
      BY <1>4 DEF Finals
    <3>2. CASE i # e.message \/ e.text = "final"
      BY <1>5, <3>1, <3>2 DEF Finals, Answers
    <3>3. CASE i = e.message /\ e.text # "final"
      BY <1>1, <3>1, <3>3 DEF Answers
    <3>4. QED
      BY <3>2, <3>3
  <2>2. overwritten \subseteq overwritten'
    BY <1>1
  <2>3. QED
    BY <2>1, <2>2 DEF Answers
<1>11. Delivered'
  BY <1>1, <1>2, <1>10 DEF DeliveryInv, Delivered, Reported
<1>12. QED
  BY <1>8, <1>9, <1>11 DEF DeliveryInv

\* A step that changes nothing of the delivery.
LEMMA FrameDelivery ==
    ASSUME DeliveryInv, LoopInv', UNCHANGED vars
    PROVE  DeliveryInv'
<1>1. /\ UNCHANGED <<shown, rows, placeholder, late, overwritten, sending, markup, badMarkup,
                     unreported, refused, unsaved, faults>>
      /\ UNCHANGED <<private, command, step, needs, done, crashes, phase, attempt>>
  BY DEF vars, deliveryVars, failureVars, handlerVars, loopVars
<1>2. DeliveryTypeOK'
  BY <1>1 DEF DeliveryInv, TypeOK, DeliveryTypeOK
<1>3. TypeOK'
  BY <1>1, <1>2 DEF DeliveryInv, TypeOK, LoopInv
<1>4. Finals' = Finals /\ Answers' = Answers
  BY <1>1, SameChat
<1>5. Places' /\ Known' /\ Delivered' /\ Single' /\ Tidy'
  BY <1>1, <1>4 DEF DeliveryInv, Places, Known, Delivered, Reported, Single, Tidy
<1>6. QED
  BY <1>3, <1>5 DEF DeliveryInv

-----------------------------------------------------------------------------
(* The strengthening holds.                                                *)

\* The text of a command takes the place of a run.
LEMMA RenderLoop ==
    ASSUME IInv, NEW p \in Markups, NEW bad \in BOOLEAN, Render(p, bad)
    PROVE  LoopInv'
<1>1. /\ UNCHANGED <<history, mode, phase, kept, removable, exchanges, load, round, called,
                     todo, expired, outcome, invoked, effects, executed>>
      /\ attempt' = attempt + 1 /\ step = "rendering"
  BY DEF Render, contextVars, turnVars, storeVars
<1>2. attempt' \in 0 .. MaxAttempts
  <2>1. attempt \in 0 .. MaxAttempts /\ attempt < MaxAttempts
    BY <1>1 DEF IInv, LoopInv, LoopTypeOK, DeliveryInv, Places
  <2>2. QED
    BY <1>1, <2>1, AgentAssumption
<1>3. LoopTypeOK' /\ EveryCallAnswered' /\ Calling' /\ ExecutionsCounted' /\ StoreCounted'
  BY <1>1, <1>2
  DEF IInv, LoopInv, LoopTypeOK, EveryCallAnswered, Calling, CurrentTurn, ExecutionsCounted,
      StoreCounted, Invocation
<1>4. Trimmed'
  BY <1>1 DEF IInv, LoopInv, Trimmed, Gone
<1>5. QED
  BY <1>3, <1>4 DEF LoopInv

\* A step of the run, with or without a request to Telegram.
LEMMA RunStepKeeps ==
    ASSUME IInv, RunStep
    PROVE  IInv'
<1>1. step = "running" /\ UNCHANGED <<private, command, step, needs, done, crashes>> /\ ~done
  BY DEF RunStep, handlerVars, IInv, DeliveryInv, Places
<1>2. CASE Quiet
  <2>1. LoopInv'
    BY <1>2, FitLoop, ChatRepliesLoop, CallTooLateLoop, ExpireLoop, ChatFailsLoop,
       ChatCallsLoop, RefuseCallLoop DEF Quiet, IInv
  <2>2. UNCHANGED deliveryVars
    BY <1>2 DEF Quiet
  <2>3. QED
    BY <1>1, <2>1, <2>2, QuietDelivery DEF IInv
<1>3. ASSUME NEW result \in Results, NEW saved \in BOOLEAN, Working(result, saved)
      PROVE  IInv'
  <2>1. LoopInv'
    BY <1>3, ExecuteCallLoop, ExecuteTooLongLoop DEF Working, IInv
  <2>2. UpdateThinking(result, saved)
    BY <1>3 DEF Working
  <2>3. QED
    BY <1>1, <2>1, <2>2, WorkingDelivery DEF IInv
<1>4. QED
  BY <1>2, <1>3 DEF RunStep

LEMMA NextKeeps == IInv /\ [Next]_vars => IInv'
<1> SUFFICES ASSUME IInv, [Next]_vars PROVE IInv'
  OBVIOUS
<1>1. ASSUME NEW result \in Results, NEW saved \in BOOLEAN, Handle(result, saved)
      PROVE  IInv'
  <2>1. LoopInv'
    BY <1>1, FrameLoop DEF Handle, IInv
  <2>2. QED
    BY <1>1, <2>1, HandleDelivery DEF IInv
<1>2. ASSUME NEW p \in Markups, NEW bad \in BOOLEAN, Render(p, bad)
      PROVE  IInv'
  <2>1. LoopInv'
    BY <1>2, RenderLoop
  <2>2. /\ Deliver(p, bad) /\ step = "rendering" /\ step' = "delivering"
        /\ UNCHANGED <<private, command, needs, done, crashes>>
    BY <1>2 DEF Render, Move
  <2>3. QED
    BY <2>1, <2>2, DeliverDelivery DEF IInv
<1>3. CASE StartAgent
  <2>1. PICK m \in Modes : Begin(m)
    BY <1>3 DEF StartAgent, Modes
  <2>2. LoopInv'
    BY <2>1, BeginLoop DEF IInv
  <2>3. /\ step = "starting" /\ step' = "running" /\ ~done
        /\ UNCHANGED <<deliveryVars, private, command, needs, done, crashes>>
    BY <1>3 DEF StartAgent, Move, IInv, DeliveryInv, Places
  <2>4. QED
    BY <2>2, <2>3, QuietDelivery DEF IInv
<1>4. CASE Recover
  <2>1. PICK m \in Modes : Begin(m)
    BY <1>4 DEF Recover, Modes
  <2>2. LoopInv'
    BY <2>1, BeginLoop DEF IInv
  <2>3. /\ step = "waiting" /\ step' = "running" /\ ~done /\ crashes > 0
        /\ needs' = "reply"
        /\ UNCHANGED <<deliveryVars, private, command, done, crashes>>
    BY <1>4 DEF Recover
  <2>4. QED
    BY <2>2, <2>3, QuietDelivery DEF IInv
<1>5. CASE RunStep
  BY <1>5, RunStepKeeps
<1>6. CASE DeliverResult
  <2>1. LoopInv'
    BY <1>6, FrameLoop DEF DeliverResult, IInv
  <2>2. /\ Deliver("plain", FALSE) /\ step = "running" /\ step' = "delivering"
        /\ UNCHANGED <<private, command, needs, done, crashes>>
    BY <1>6 DEF DeliverResult, Move
  <2>3. "plain" \in Markups /\ FALSE \in BOOLEAN
    BY DEF Markups
  <2>4. QED
    BY <2>1, <2>2, <2>3, DeliverDelivery DEF IInv
<1>7. CASE Deliveries
  <2>1. LoopInv'
    BY <1>7, FrameLoop DEF Deliveries, IInv
  <2>2. /\ step = "delivering" /\ DeliveryStep
        /\ UNCHANGED <<step, phase, attempt, private, command, needs, done, crashes>>
    BY <1>7 DEF Deliveries, loopVars, handlerVars
  <2>3. QED
    BY <2>1, <2>2, FinishThinkingDelivery, PostFinalDelivery DEF IInv, DeliveryStep
<1>8. CASE Finish
  <2>1. LoopInv'
    BY <1>8, ForgetLoop DEF Finish, IInv
  <2>2. /\ step = "delivering" /\ sending \in {"sent", "failed"} /\ Abandon /\ Forget
        /\ done' = Settles /\ step' = "waiting" /\ needs' = "reply"
        /\ UNCHANGED <<private, command, crashes>>
    BY <1>8 DEF Finish
  <2>3. /\ done' \in BOOLEAN /\ (done' <=> sending = "sent" \/ needs = "nothing")
    BY <2>2, Zenon DEF Settles
  <2>4. (done' /\ command = "none") => Reported
    BY <2>2, <2>3 DEF Reported, IInv, DeliveryInv, Places
  <2>5. crashes' \in 0 .. MaxCrashes /\ crashes' >= crashes
    BY <2>2, CrashAssumption DEF IInv, DeliveryInv, TypeOK
  <2>6. QED
    BY <2>1, <2>2, <2>3, <2>4, <2>5, AbandonDelivery DEF IInv
<1>9. CASE LateEditArrives /\ UNCHANGED <<loopVars, handlerVars>>
  BY <1>9, FrameLoop, LateEditDelivery DEF IInv
<1>10. CASE Crash
  <2>1. LoopInv'
    BY <1>10, ForgetLoop DEF Crash, IInv
  <2>2. /\ Abandon /\ Forget /\ step' = "waiting" /\ needs' = "reply" /\ crashes < MaxCrashes
        /\ crashes' = crashes + 1
        /\ UNCHANGED <<private, command, done>>
    BY <1>10 DEF Crash
  <2>3. crashes \in 0 .. MaxCrashes /\ done \in BOOLEAN
    BY DEF IInv, DeliveryInv, TypeOK
  <2>4. crashes' \in 0 .. MaxCrashes /\ crashes' >= crashes /\ crashes' # 0
    BY <2>2, <2>3, CrashAssumption
  <2>5. done' \in BOOLEAN /\ ((done' /\ command = "none") => Reported)
    BY <2>2, <2>3 DEF Reported
  <2>6. QED
    BY <2>1, <2>2, <2>4, <2>5, AbandonDelivery DEF IInv
<1>11. CASE UNCHANGED vars
  BY <1>11, FrameLoop, FrameDelivery DEF vars, IInv
<1>12. QED
  BY <1>1, <1>2, <1>3, <1>4, <1>5, <1>6, <1>7, <1>8, <1>9, <1>10, <1>11 DEF Next

\* In every reachable state of the composition, for all updates, turns, budgets
\* and failures, the strengthening holds: it is what the theorems below follow
\* from.
THEOREM IInvHolds == Spec => []IInv
<1>1. Init => IInv
  <2> SUFFICES ASSUME Init PROVE IInv
    OBVIOUS
  <2>1. LoopInv
    BY InitLoop DEF Init
  <2>2. QED
    BY <2>1, InitDelivery DEF IInv
<1>2. QED
  BY <1>1, NextKeeps, PTL DEF Spec

\* The rounds of a run (agent.go, Run): its calls and their answers correspond,
\* no call runs twice, and none takes effect twice for the update, whatever the
\* model asks for, whatever fails and however often the update is answered.
THEOREM CallsAnsweredAndMadeOnce == Spec => []ReplyInv
<1>1. IInv => ReplyInv
  <2> SUFFICES ASSUME IInv PROVE ReplyInv
    OBVIOUS
  <2>1. NotRepeated
    BY DEF IInv, LoopInv, ExecutionsCounted, NotRepeated
  <2>2. EffectOnce
    BY DEF IInv, LoopInv, StoreCounted, EffectOnce
  <2>3. QED
    BY <2>1, <2>2 DEF IInv, LoopInv, DeliveryInv, ReplyInv
<1>2. QED
  BY <1>1, IInvHolds, PTL

\* What the model is sent (agent.go, Run, and request_builder's contextSize)
\* fits into the budget, has the last message and its parent, and lacks only
\* the oldest messages that had to go, for every history and every size.
THEOREM ContextIsTheNewest == Spec => []ContextIsNewest
<1>1. IInv => ContextIsNewest
  <2> SUFFICES ASSUME IInv, phase = "asking" PROVE ContextIsNewest
    BY DEF ContextIsNewest
  <2> DEFINE length == history.length
             spared == {history.length, history.parent} \ {0}
  <2>1. /\ LoopTypeOK /\ length \in Nat \ {0} /\ history.parent \in 0 .. length - 1
        /\ kept \subseteq 1 .. length
    BY AgentAssumption DEF IInv, LoopInv, LoopTypeOK
  <2>2. /\ removable = kept \cap Removable(history)
        /\ Gone \subseteq Removable(history)
        /\ \A i \in Gone, j \in removable : i < j
        /\ Gone # {} => load + SizeOf(kept \cup {Max(Gone)}) > Budget
        /\ load + SizeOf(kept) <= Budget
    BY DEF IInv, LoopInv, Trimmed
  <2>3. ContextSize(kept) <= Budget
    BY <2>1, <2>2, SizesAreNumbers
  <2>4. spared \subseteq kept
    <3>1. \A i \in spared : i \in 1 .. length /\ i \notin Removable(history)
      BY <2>1 DEF Removable
    <3>2. QED
      BY <2>2, <3>1 DEF Gone
  <2>5. \A i \in Gone, j \in kept \ spared : j < length - 1 => i < j
    <3>1. \A j \in kept \ spared : j < length - 1 => j \in Removable(history)
      BY <2>1 DEF Removable
    <3>2. QED
      BY <2>2, <3>1
  <2>6. Gone # {} => ContextSize(kept \cup {Max(Gone)}) > Budget
    <3>1. SUFFICES ASSUME Gone # {} PROVE ContextSize(kept \cup {Max(Gone)}) > Budget
      OBVIOUS
    <3>2. Max(Gone) \in Gone
      <4>1. Gone \in SUBSET (0 .. length) /\ Gone \in SUBSET Int
        BY <2>1 DEF Gone
      <4>2. PICK x \in Gone : \A y \in Gone : y <= x
        BY <2>1, <3>1, <4>1, GreatestOf
      <4>3. Max(Gone) = x
        BY <4>1, <4>2, MaxIs
      <4>4. QED
        BY <4>3
    <3>3. kept \cup {Max(Gone)} \in SUBSET (1 .. history.length)
      BY <2>1, <3>2 DEF Gone
    <3>4. ContextSize(kept \cup {Max(Gone)}) = load + SizeOf(kept \cup {Max(Gone)})
      BY <2>1, <3>3, SizesAreNumbers
    <3>5. QED
      BY <2>2, <3>1, <3>4
  <2>7. QED
    BY <2>3, <2>4, <2>5, <2>6 DEF ContextIsNewest, Gone
<1>2. QED
  BY <1>1, IInvHolds, PTL

\* telegram.go, deliver: the result is shown at most once, unless Telegram did
\* what it reported as an error or the process died; a request that is settled
\* has been answered.
THEOREM AnsweredOnce == Spec => []AnswerOnce
<1>1. IInv => AnswerOnce
  <2> SUFFICES ASSUME IInv PROVE AnswerOnce
    OBVIOUS
  <2>1. ASSUME ~unreported, crashes = 0
        PROVE  Cardinality(Answers) <= 1
    <3>1. overwritten = {} /\ \A i, j \in Finals : i = j
      BY <2>1 DEF IInv, DeliveryInv, Known, Single
    <3>2. \A i, j \in Answers : i = j
      BY <3>1 DEF Answers
    <3>3. QED
      BY <3>2, AtMostOne
  <2>2. done => command # "none" \/ Answers # {}
    BY DEF IInv, DeliveryInv, Delivered, Reported
  <2>3. QED
    BY <2>1, <2>2 DEF AnswerOnce
<1>2. QED
  BY <1>1, IInvHolds, PTL

\* telegram.go, withThinking and deliver: when nothing but markup was refused,
\* one message is left, with the result.
THEOREM OnlyTheAnswerIsLeft == Spec => []NothingLeftBehind
<1>1. IInv => NothingLeftBehind
  BY DEF IInv, DeliveryInv, Tidy, NothingLeftBehind
<1>2. QED
  BY <1>1, IInvHolds, PTL

\* telegram.go, post and EditMessage: an answer that was reported as shown is
\* in the conversation store, unless a row could not be written.
THEOREM TheAnswerIsStored == Spec => []AnswerIsStored
<1>1. IInv => AnswerIsStored
  BY DEF IInv, DeliveryInv, Delivered, Reported, AnswerIsStored
<1>2. QED
  BY <1>1, IInvHolds, PTL

\* agent.go, ToolsFor: a run without the right to change the schedule changes
\* nothing, whatever the model asks for and whatever earlier runs for the
\* update were allowed.
THEOREM GroupChangesNothing == Spec => NoEffectWithoutRight
<1>1. ASSUME [Next]_vars, mode' = "group"
      PROVE  UNCHANGED storeVars
  <2>1. ASSUME ToolEffect(Head(todo)), Accepted(Head(todo)), mode = "group"
        PROVE  UNCHANGED storeVars
    <3>1. Head(todo).tool \in ReadTools
      BY <2>1 DEF Accepted, ToolsFor
    <3>2. Head(todo).tool \notin AdminTools
      BY <3>1, AgentAssumption
    <3>3. QED
      BY <2>1, <3>2 DEF ToolEffect
  <2>2. CASE RunStep
    <3>1. ASSUME NEW size \in ResultSizes, ExecuteCall(size) PROVE UNCHANGED storeVars
      BY <1>1, <2>1, <3>1 DEF ExecuteCall, Answer
    <3>2. CASE ExecuteTooLong
      BY <1>1, <2>1, <3>2 DEF ExecuteTooLong, End
    <3>3. CASE Quiet
      BY <3>3 DEF Quiet, Fit, ChatReplies, CallTooLate, Expire, ChatFails, ChatCalls, RefuseCall
    <3>4. QED
      BY <2>2, <3>1, <3>2, <3>3 DEF RunStep, Working
  <2>3. CASE StartAgent \/ Recover
    BY <2>3 DEF StartAgent, Recover, Begin
  <2>4. CASE \E p \in Markups, bad \in BOOLEAN : Render(p, bad)
    BY <2>4 DEF Render
  <2>5. CASE Finish \/ Crash
    BY <2>5 DEF Finish, Crash, Forget
  <2>6. CASE UNCHANGED loopVars
    BY <2>6 DEF loopVars, storeVars
  <2>7. QED
    BY <1>1, <2>2, <2>3, <2>4, <2>5, <2>6 DEF Next, Handle, DeliverResult, Deliveries, vars
<1>2. [Next]_vars => [mode' = "group" => UNCHANGED storeVars]_loopVars
  BY <1>1
<1>3. QED
  BY <1>2, PTL DEF Spec, NoEffectWithoutRight

-----------------------------------------------------------------------------
(* The end of an execution: the deadline of Run alone bounds it, whatever   *)
(* the number of rounds and calls, and what the provider and Telegram do.   *)

\* The deadline is seen only where Run looks at it.
DeadlineSeen ==
    /\ step = "running" => phase # "idle"
    /\ step = "running" /\ expired => phase # "fitting"

LEMMA RunKeepsDeadline ==
    ASSUME DeadlineSeen, RunStep
    PROVE  DeadlineSeen'
<1>1. step = "running" /\ step' = step
  BY DEF RunStep, handlerVars
<1>2. CASE Fit
  BY <1>1, <1>2 DEF Fit, End, DeadlineSeen
<1>3. CASE ChatReplies \/ CallTooLate \/ Expire \/ ExecuteTooLong
           \/ \E kind \in Failures : ChatFails(kind)
  BY <1>1, <1>3
  DEF ChatReplies, CallTooLate, Expire, ExecuteTooLong, ChatFails, End, DeadlineSeen
<1>4. CASE \E t \in Turns : ChatCalls(t)
  BY <1>1, <1>4 DEF ChatCalls, End, DeadlineSeen
<1>5. ASSUME NEW size \in ResultSizes, RefuseCall(size) \/ ExecuteCall(size)
      PROVE  DeadlineSeen'
  <2>1. ~expired /\ phase = "calling" /\ Answer(size)
    BY <1>5 DEF RefuseCall, ExecuteCall
  <2>2. ~expired' /\ phase' \in {"fitting", "calling"}
    BY <2>1 DEF Answer
  <2> QED BY <2>2 DEF DeadlineSeen
<1>6. QED
  BY <1>2, <1>3, <1>4, <1>5 DEF RunStep, Quiet, Working

LEMMA DeadlineKept ==
    ASSUME DeadlineSeen, [Next]_vars
    PROVE  DeadlineSeen'
<1>1. CASE StartAgent \/ Recover
  BY <1>1 DEF StartAgent, Recover, Begin, DeadlineSeen
<1>2. CASE UNCHANGED <<step, phase, expired>>
  BY <1>2 DEF DeadlineSeen
<1>3. CASE step' # "running"
  BY <1>3 DEF DeadlineSeen
<1>4. QED
  BY <1>1, <1>2, <1>3, RunKeepsDeadline
  DEF Next, Handle, Render, DeliverResult, Deliveries, Finish, Crash, Move, loopVars,
      handlerVars, vars

\* The steps that are left to an execution, from its claim to its end; before
\* its deadline a run is at one place.
DeliveryLeft ==
    IF sending = "edit" THEN 5
    ELSE IF sending = "plain edit" THEN 4
    ELSE IF sending = "post" THEN 3
    ELSE IF sending = "plain post" THEN 2
    ELSE 1
OutOfTime == expired \/ phase \notin {"fitting", "asking", "calling"}
Left ==
    IF step = "waiting" THEN 0
    ELSE IF step = "starting" THEN 9
    ELSE IF step = "delivering" THEN DeliveryLeft
    ELSE IF step = "rendering" \/ phase = "ended" THEN 6
    ELSE IF expired THEN 7
    ELSE 8

LEMMA LeftIsNine == Left \in 0 .. 9 /\ Left' \in 0 .. 9
  BY DEF Left, DeliveryLeft

LEMMA OwnMoves ==
    ASSUME Own
    PROVE  ~UNCHANGED <<step, phase, expired, sending>>
<1>1. Fit \/ Expire \/ CallTooLate \/ (\E kind \in Failures : ChatFails(kind))
      => ~UNCHANGED <<phase, expired>>
  BY DEF Fit, Expire, CallTooLate, ChatFails, End
<1>2. StartAgent \/ DeliverResult \/ Finish \/ (\E p \in Markups, bad \in BOOLEAN : Render(p, bad))
      => step' # step
  BY DEF StartAgent, DeliverResult, Finish, Render, Move
<1>3. ASSUME NEW result, NEW saved, FinishThinking(result, saved) \/ PostFinal(result, saved)
      PROVE  sending' # sending
  BY <1>3 DEF FinishThinking, PostFinal, Attempted, AfterError
<1>4. QED
  BY <1>1, <1>2, <1>3 DEF Own, Deliveries, DeliveryStep

LEMMA DeliveryGoesDown ==
    ASSUME IInv, Deliveries
    PROVE  Left' < Left
<1>1. step = "delivering" /\ step' = step
  BY DEF Deliveries, handlerVars
<1>2. PICK result \in Results, saved \in BOOLEAN : FinishThinking(result, saved) \/ PostFinal(result, saved)
  BY DEF Deliveries, DeliveryStep
<1>3. sending \in {"edit", "plain edit", "post", "plain post"} /\ sending' \in {"sent", AfterError}
  BY <1>2 DEF FinishThinking, PostFinal, Attempted
<1>4. /\ sending = "edit" => sending' \in {"sent", "plain edit", "post"}
      /\ sending = "plain edit" => sending' \in {"sent", "post"}
      /\ sending = "post" => sending' \in {"sent", "plain post", "failed"}
      /\ sending = "plain post" => sending' \in {"sent", "failed"}
  BY <1>3 DEF AfterError
<1>5. DeliveryLeft' < DeliveryLeft
  <2>1. CASE sending = "edit"
    <3>1. DeliveryLeft = 5
      BY <2>1 DEF DeliveryLeft
    <3>2. DeliveryLeft' \in {1, 3, 4}
      BY <1>4, <2>1 DEF DeliveryLeft
    <3> QED BY <3>1, <3>2
  <2>2. CASE sending = "plain edit"
    <3>1. DeliveryLeft = 4
      BY <2>2 DEF DeliveryLeft
    <3>2. DeliveryLeft' \in {1, 3}
      BY <1>4, <2>2 DEF DeliveryLeft
    <3> QED BY <3>1, <3>2
  <2>3. CASE sending = "post"
    <3>1. DeliveryLeft = 3
      BY <2>3 DEF DeliveryLeft
    <3>2. DeliveryLeft' \in {1, 2}
      BY <1>4, <2>3 DEF DeliveryLeft
    <3> QED BY <3>1, <3>2
  <2>4. CASE sending = "plain post"
    <3>1. DeliveryLeft = 2
      BY <2>4 DEF DeliveryLeft
    <3>2. DeliveryLeft' = 1
      BY <1>4, <2>4 DEF DeliveryLeft
    <3> QED BY <3>1, <3>2
  <2> QED BY <1>3, <2>1, <2>2, <2>3, <2>4
<1>6. QED
  BY <1>1, <1>5 DEF Left

LEMMA RunGoesDown ==
    ASSUME IInv, DeadlineSeen, RunStep
    PROVE  /\ Left' <= Left
           /\ Own => Left = 8 \/ Left' < Left
<1>1. step = "running" /\ step' = step
  BY DEF RunStep, handlerVars
<1>2. phase \in {"fitting", "asking", "calling", "ended"}
  BY <1>1 DEF IInv, LoopInv, LoopTypeOK, DeadlineSeen
<1>3. CASE phase = "ended"
  BY <1>1, <1>3
  DEF RunStep, Quiet, Working, Fit, ChatReplies, CallTooLate, Expire, ExecuteTooLong,
      ChatFails, ChatCalls, RefuseCall, ExecuteCall
<1>4. CASE phase # "ended" /\ ~expired
  <2>1. Left = 8
    BY <1>1, <1>4 DEF Left
  <2>2. Left' <= 8
    BY <1>1 DEF Left, DeliveryLeft
  <2> QED BY <2>1, <2>2
<1>5. CASE phase # "ended" /\ expired
  <2>1. Left = 7
    BY <1>1, <1>5 DEF Left
  <2>2. phase' = "ended"
    BY <1>1, <1>5, DeadlineSeen
    DEF RunStep, Quiet, Working, Fit, ChatReplies, CallTooLate, Expire, ExecuteTooLong,
        ChatFails, ChatCalls, RefuseCall, ExecuteCall, End, DeadlineSeen
  <2>3. Left' = 6
    BY <1>1, <2>2 DEF Left
  <2> QED BY <2>1, <2>3
<1>6. QED
  BY <1>3, <1>4, <1>5

LEMMA LeftGoesDown ==
    ASSUME IInv, DeadlineSeen, [Next]_vars, step # "waiting"
    PROVE  /\ Left' <= Left
           /\ Own => Left = 8 \/ Left' < Left
<1>1. CASE RunStep
  BY <1>1, RunGoesDown
<1>2. CASE Deliveries
  <2>1. Left' < Left
    BY <1>2, DeliveryGoesDown
  <2> QED BY <2>1, LeftIsNine
<1>3. CASE StartAgent
  BY <1>3 DEF StartAgent, Begin, Move, Left, DeliveryLeft
<1>4. ASSUME NEW p \in Markups, NEW bad \in BOOLEAN, Render(p, bad)
      PROVE  Left' < Left
  <2>1. step = "rendering" /\ step' = "delivering"
    BY <1>4 DEF Render, Move
  <2> QED BY <2>1 DEF Left, DeliveryLeft
<1>5. CASE DeliverResult
  BY <1>5 DEF DeliverResult, Move, Left, DeliveryLeft
<1>6. CASE Finish \/ Crash
  <2>1. Left' = 0
    BY <1>6 DEF Finish, Crash, Left
  <2>2. Left \in 1 .. 9
    BY DEF Left, DeliveryLeft
  <2> QED BY <2>1, <2>2
<1>7. CASE (LateEditArrives /\ UNCHANGED <<loopVars, handlerVars>>) \/ UNCHANGED vars
  <2>1. UNCHANGED <<step, phase, expired, sending>>
    BY <1>7 DEF LateEditArrives, loopVars, handlerVars, deliveryVars, vars
  <2>2. Left' = Left
    BY <2>1 DEF Left, DeliveryLeft
  <2>3. ~Own
    BY <2>1, OwnMoves
  <2> QED BY <2>2, <2>3, LeftIsNine
<1>8. ASSUME NEW p \in Markups, NEW bad \in BOOLEAN, Render(p, bad)
      PROVE  Left' <= Left
  BY <1>4, <1>8, LeftIsNine
<1>9. QED
  BY <1>1, <1>2, <1>3, <1>4, <1>5, <1>6, <1>7, <1>8 DEF Next, Handle, Recover

LEMMA DeadlineInvariant == Spec => [](IInv /\ DeadlineSeen)
<1>1. Init => DeadlineSeen
  BY DEF Init, DeadlineSeen
<1>2. DeadlineSeen /\ [Next]_vars => DeadlineSeen'
  BY DeadlineKept
<1>3. QED
  BY <1>1, <1>2, IInvHolds, PTL DEF Spec

\* RunTimeout passes for every run that is not over before; and the handler, once
\* that is so, goes on until it is done: every request to Telegram or to the
\* database returns.
DeadlinePasses == []<>OutOfTime
HandlerGoesOn == []<>(step = "waiting") \/ []<><<Own>>_vars

AtMost(n) == Left <= n
Falls(n, m) ==
    Spec /\ DeadlinePasses /\ HandlerGoesOn => (AtMost(n) ~> AtMost(m) \/ step = "waiting")

LEMMA OneStepLess ==
    ASSUME NEW n \in 1 .. 9, NEW m \in 0 .. 8, n = m + 1
    PROVE  Falls(n, m)
<1> USE DEF AtMost
<1>1. ASSUME IInv, DeadlineSeen, [Next]_vars, AtMost(n)
      PROVE  /\ AtMost(n)' \/ (step = "waiting")
             /\ Own /\ n # 8 => AtMost(m)' \/ (step = "waiting")
  <2>1. Left \in Int /\ Left' \in Int
    BY LeftIsNine
  <2> QED BY <1>1, <2>1, LeftGoesDown
<1>2. IInv /\ DeadlineSeen /\ AtMost(n) /\ [Next]_vars => AtMost(n)' \/ step = "waiting"
  BY <1>1
<1>3. IInv /\ DeadlineSeen /\ AtMost(n) /\ [Next]_vars /\ <<Own>>_vars /\ n # 8
      => AtMost(m)' \/ step = "waiting"
  BY <1>1
<1>4. IInv /\ DeadlineSeen /\ n = 8 /\ AtMost(n) /\ OutOfTime => AtMost(m)
  <2> SUFFICES ASSUME IInv, DeadlineSeen, n = 8, Left <= 8, OutOfTime PROVE Left # 8
    BY LeftIsNine
  <2>1. step \in {"waiting", "starting", "rendering", "running", "delivering"}
    BY DEF IInv, DeliveryInv, TypeOK
  <2>2. CASE step = "running"
    <3>1. phase \in {"idle", "fitting", "asking", "calling", "ended"} /\ phase # "idle"
      BY <2>2 DEF IInv, LoopInv, LoopTypeOK, DeadlineSeen
    <3> QED BY <2>2, <3>1 DEF Left, OutOfTime
  <2>3. CASE step # "running"
    BY <2>1, <2>3 DEF Left, DeliveryLeft
  <2> QED BY <2>2, <2>3
<1>5. CASE n = 8
  BY <1>2, <1>4, <1>5, DeadlineInvariant, PTL DEF Falls, DeadlinePasses, Spec
<1>6. CASE n # 8
  BY <1>2, <1>3, <1>6, DeadlineInvariant, PTL DEF Falls, HandlerGoesOn, Spec
<1>7. QED
  BY <1>5, <1>6

\* Under that fairness every execution ends, for every number of rounds and calls
\* and every size: also when the provider never answers and Telegram refuses
\* everything.
THEOREM ExecutionsEnd == Spec /\ DeadlinePasses /\ HandlerGoesOn => ExecutionEnds
<1>1. /\ Falls(9, 8) /\ Falls(8, 7) /\ Falls(7, 6)
      /\ Falls(6, 5) /\ Falls(5, 4) /\ Falls(4, 3)
      /\ Falls(3, 2) /\ Falls(2, 1) /\ Falls(1, 0)
  BY OneStepLess
<1>2. Spec /\ DeadlinePasses /\ HandlerGoesOn => (AtMost(9) ~> AtMost(6) \/ step = "waiting")
  BY <1>1, PTL DEF Falls
<1>3. Spec /\ DeadlinePasses /\ HandlerGoesOn => (AtMost(6) ~> AtMost(3) \/ step = "waiting")
  BY <1>1, PTL DEF Falls
<1>4. Spec /\ DeadlinePasses /\ HandlerGoesOn => (AtMost(3) ~> AtMost(0) \/ step = "waiting")
  BY <1>1, PTL DEF Falls
<1>5. AtMost(9)
  BY LeftIsNine DEF AtMost
<1>6. AtMost(0) => step = "waiting"
  BY DEF AtMost, Left, DeliveryLeft
<1>7. QED
  BY <1>2, <1>3, <1>4, <1>5, <1>6, PTL DEF ExecutionEnds

\* The weak fairness of FairSpec is the second half of it, where an execution can
\* go on by itself until it has ended.
THEOREM FairExecutionsEnd ==
    FairSpec /\ DeadlinePasses /\ [](step # "waiting" => ENABLED <<Own>>_vars) => ExecutionEnds
<1>1. step = "waiting" \/ step # "waiting"
  OBVIOUS
<1>2. FairSpec /\ [](step # "waiting" => ENABLED <<Own>>_vars) => HandlerGoesOn
  BY <1>1, PTL DEF FairSpec, HandlerGoesOn
<1>3. QED
  BY <1>2, ExecutionsEnd, PTL DEF FairSpec

=============================================================================
