------------------------------ MODULE AgentLoop ------------------------------
(***************************************************************************)
(* One run of the agent (internal/agent/agent.go, Run): rounds of a call   *)
(* of the model and of the tools it asks for, within a budget for the      *)
(* context, a bound on the rounds and a deadline.  The tools' mutations    *)
(* are transactions of the schedule store (ScheduleRequests); of them only *)
(* the effect under the run's invocation key is kept.                      *)
(*                                                                         *)
(* The same update may be answered by several runs: after a crash or a     *)
(* refused delivery the receipt is claimed again.                          *)
(*                                                                         *)
(* A call is a tool and its canonical arguments.  Within a turn calls have *)
(* distinct ids (decodeAssistant), so a call is named by its place.  Sizes *)
(* are abstract: the system message with the tools' schemas, each input    *)
(* message, each turn and each result has one.                             *)
(***************************************************************************)
EXTENDS Integers, Sequences, FiniteSets, FiniteSetsExt

CONSTANTS
    Histories,    \* what an update brings: its messages and its reply parent
    Turns,        \* the sequences of calls the model may ask for
    ReadTools,    \* Agent.Tools
    AdminTools,   \* Agent.AdminTools
    NotJSON,      \* the arguments that are not valid JSON, or null
    MaxRounds,    \* MaxRounds (10)
    MaxCalls,     \* the calls taken from one turn (100)
    Budget,       \* ContextBytes
    InputSize,    \* the size of each input message
    ResultSizes,  \* the sizes a tool's answer may have
    MaxAttempts   \* bound: runs for the update

Modes == {"group", "group_write", "admin_private"}
Calls == UNION {{t[i] : i \in DOMAIN t} : t \in Turns}
Failures == {"provider_configuration", "provider_protocol", "provider_transport",
             "timeout"}
Outcomes == {"none", "reply", "context_limit", "round_limit"} \cup Failures

ASSUME AgentAssumption ==
    /\ MaxRounds \in Nat /\ MaxCalls \in Nat /\ MaxAttempts \in Nat
    /\ Budget \in Nat
    /\ ResultSizes \subseteq Nat
    /\ ReadTools \cap AdminTools = {}
    /\ \A t \in Turns : t \in Seq(Calls) /\ t # <<>>
    /\ \A h \in Histories :
          /\ h.length \in Nat \ {0}
          /\ h.parent \in 0 .. h.length - 1
          /\ \A i \in 1 .. h.length : InputSize[i] \in Nat

VARIABLES
    history,    \* the update
    mode,       \* the rights of the run
    phase,      \* where Run stands
    kept,       \* the input messages in request.Messages
    removable,  \* those of them that may be removed
    exchanges,  \* the messages after the input: calls and answers
    load,       \* their size, with the system message and the schemas
    round,
    called,     \* the calls this run has executed
    todo,       \* the calls of the turn that have no answer yet
    expired,    \* whether RunTimeout is over
    outcome,
    attempt,    \* history: how many runs there were
    invoked,    \* agent_mutations: the invocation keys of applied mutations
    effects,    \* history: how often each call changed the schedule, up to 2
    executed    \* history: how often this run executed each call, up to 2

contextVars == <<kept, removable, exchanges, load>>
turnVars == <<round, called, todo>>
storeVars == <<invoked, effects>>
loopVars == <<history, mode, phase, contextVars, turnVars, expired, outcome,
              attempt, storeVars, executed>>

LoopInit ==
    /\ history \in Histories /\ mode \in Modes
    /\ phase = "idle"
    /\ kept = {} /\ removable = {} /\ exchanges = <<>> /\ load = 0
    /\ round = 0 /\ called = {} /\ todo = <<>>
    /\ expired = FALSE /\ outcome = "none"
    /\ attempt = 0 /\ invoked = {}
    /\ effects = [c \in Calls |-> 0] /\ executed = [c \in Calls |-> 0]

-----------------------------------------------------------------------------
(* What the code computes.                                                 *)

\* Faulty variant of ToolsFor: every run has every tool.
AllTools(m) == ReadTools \cup AdminTools

\* Agent.ToolsFor.
ToolsFor(m) == ReadTools \cup (IF m = "group" THEN {} ELSE AdminTools)

\* contextSize of the request with the input messages S.
ContextSize(S) == load + MapThenSumSet(LAMBDA i : InputSize[i], S)

\* Faulty variant of Removable: the parent is not exempt.
RemovableParent(h) == 1 .. h.length - 2

\* The input that may be removed: not the last two messages, and not the
\* parent of the last one.  request.Messages begins with the system message.
Removable(h) == (1 .. h.length - 2) \ {h.parent}

\* The oldest removable messages, as many as must go for the rest to fit.
Excess ==
    LET prefixes == {{}} \cup {{j \in removable : j <= i} : i \in removable}
        enough == {P \in prefixes : ContextSize(kept \ P) <= Budget}
    IN  IF enough = {} THEN removable
        ELSE CHOOSE P \in enough : \A Q \in enough : P \subseteq Q

\* RunID and the hash of the call; the RunID is made of the update.
Invocation(c) == <<history, c>>

CallMessage(n) == [role |-> "assistant", calls |-> n]
ToolMessage(i) == [role |-> "tool", call |-> i]

\* The place of the first call that has no answer: it is known by the messages
\* since the turn.
Answered(i) == exchanges[i].role = "tool"
CurrentCall ==
    LET turn == Max({i \in DOMAIN exchanges : ~Answered(i)})
    IN  Len(exchanges) - turn + 1

-----------------------------------------------------------------------------
(* Run up to the call of the model.                                        *)

Fresh ==
    /\ kept' = {} /\ removable' = {} /\ exchanges' = <<>> /\ load' = 0
    /\ round' = 0 /\ called' = {} /\ todo' = <<>>
    /\ executed' = [c \in Calls |-> 0]

\* Run returns: its messages are gone.
End(o) ==
    /\ outcome' = o /\ phase' = "ended"
    /\ Fresh
    /\ UNCHANGED <<history, mode, expired, attempt>>

\* A run for the update begins, with a new deadline.
Begin(m) ==
    /\ phase = "idle" /\ attempt < MaxAttempts
    /\ attempt' = attempt + 1
    /\ mode' = m
    /\ phase' = "fitting"
    /\ kept' = 1 .. history.length
    /\ removable' = Removable(history)
    /\ exchanges' = <<>> /\ load' = 1
    /\ round' = 0 /\ called' = {} /\ todo' = <<>>
    /\ expired' = FALSE /\ outcome' = "none"
    /\ executed' = [c \in Calls |-> 0]
    /\ UNCHANGED <<history, storeVars>>

\* Old input is removed until the request fits; if nothing removable is left,
\* the run ends with an answer that says so.
Fit ==
    LET rest == kept \ Excess IN
    /\ phase = "fitting"
    /\ \/ ContextSize(rest) > Budget /\ End("context_limit")
       \/ /\ ContextSize(rest) <= Budget
          /\ kept' = rest /\ removable' = removable \ Excess
          /\ phase' = "asking"
          /\ UNCHANGED <<exchanges, load, turnVars, expired, outcome, history,
                         mode, attempt, executed>>
    /\ UNCHANGED storeVars

-----------------------------------------------------------------------------
(* The model's turn: the outcomes of Client.Chat (module Completion).      *)

\* Chat ends with an error.  After the deadline it is a timeout, or the
\* failure of the last attempt to reach the provider.
ChatFails(kind) ==
    /\ phase = "asking"
    /\ kind = "timeout" => expired
    /\ End(kind) /\ UNCHANGED storeVars

ChatReplies ==
    /\ phase = "asking" /\ ~expired
    /\ End("reply") /\ UNCHANGED storeVars

\* The turn asks for calls: one turn too many, more calls than are taken, or
\* calls that are executed next.
ChatCalls(t) ==
    /\ phase = "asking" /\ ~expired
    /\ \/ round = MaxRounds /\ End("round_limit")
       \/ round < MaxRounds /\ Len(t) > MaxCalls /\ End("provider_protocol")
       \/ /\ round < MaxRounds /\ Len(t) <= MaxCalls
          /\ exchanges' = Append(exchanges, CallMessage(Len(t)))
          /\ load' = load + Len(t)
          /\ todo' = t
          /\ phase' = "calling"
          /\ UNCHANGED <<kept, removable, round, called, history, mode, expired,
                         outcome, attempt, executed>>
    /\ UNCHANGED storeVars

-----------------------------------------------------------------------------
(* The calls of a turn, one after another.                                 *)

\* Faulty variant of Answer: a call that was made before gets no answer.
AnswerUnlessRepeated(size) ==
    /\ exchanges' = IF Head(todo) \in called THEN exchanges
                    ELSE Append(exchanges, ToolMessage(CurrentCall))
    /\ load' = load + size
    /\ todo' = Tail(todo)
    /\ IF todo' = <<>>
       THEN phase' = "fitting" /\ round' = round + 1
       ELSE UNCHANGED <<phase, round>>
    /\ UNCHANGED <<kept, removable, history, mode, expired, outcome, attempt>>

\* The role=tool message of the call; after the last one the next round begins.
Answer(size) ==
    /\ exchanges' = Append(exchanges, ToolMessage(CurrentCall))
    /\ load' = load + size
    /\ todo' = Tail(todo)
    /\ IF todo' = <<>>
       THEN phase' = "fitting" /\ round' = round + 1
       ELSE UNCHANGED <<phase, round>>
    /\ UNCHANGED <<kept, removable, history, mode, expired, outcome, attempt>>

\* Whether the call is executed: the tool exists in this mode, the arguments
\* are JSON, and the run has not executed the same call before.
Accepted(c) ==
    /\ c.tool \in ToolsFor(mode)
    /\ c.args \notin NotJSON
    /\ c \notin called

\* The deadline is seen before a call.
CallTooLate ==
    /\ phase = "calling" /\ expired
    /\ End("timeout") /\ UNCHANGED storeVars

\* unknown_tool, invalid_arguments or duplicate_call_in_run.
RefuseCall(size) ==
    /\ phase = "calling" /\ ~expired
    /\ ~Accepted(Head(todo))
    /\ Answer(size)
    /\ UNCHANGED <<called, executed, storeVars>>

\* What the tool does to the schedule: a mutation that has a receipt under
\* the invocation is not applied again, any other may be applied or fail.
ToolEffect(c) ==
    IF c.tool \in AdminTools /\ Invocation(c) \notin invoked
    THEN \/ /\ invoked' = invoked \cup {Invocation(c)}
            /\ effects' = [effects EXCEPT ![c] = Min({2, @ + 1})]
         \/ UNCHANGED storeVars
    ELSE UNCHANGED storeVars

\* called: every execution counts, also one that fails.
Remembered(c) == called \cup {c}

\* The tool runs and its result, or its error, is the answer.
ExecuteCall(size) ==
    LET c == Head(todo) IN
    /\ phase = "calling" /\ ~expired /\ Accepted(c)
    /\ ToolEffect(c)
    /\ called' = Remembered(c)
    /\ executed' = [executed EXCEPT ![c] = Min({2, @ + 1})]
    /\ Answer(size)

\* The deadline passes while the tool runs: its result is dropped and the run
\* ends, whatever the tool has done.
ExecuteTooLong ==
    LET c == Head(todo) IN
    /\ phase = "calling" /\ ~expired /\ Accepted(c)
    /\ ToolEffect(c)
    /\ End("timeout")

\* Faulty variant of Expire: the request to the provider has no deadline.
ExpireBetweenCalls ==
    /\ phase = "calling" /\ ~expired
    /\ expired' = TRUE
    /\ UNCHANGED <<history, mode, phase, contextVars, turnVars, outcome, attempt,
                   storeVars, executed>>

\* RunTimeout passes while the model is asked or between two calls.
Expire ==
    /\ phase \in {"asking", "calling"} /\ ~expired
    /\ expired' = TRUE
    /\ UNCHANGED <<history, mode, phase, contextVars, turnVars, outcome, attempt,
                   storeVars, executed>>

\* The run is over for its caller, or died with the process: what is left is
\* what the tools wrote.
Forget ==
    /\ phase' = "idle"
    /\ Fresh
    /\ expired' = FALSE /\ outcome' = "none"
    /\ UNCHANGED <<history, mode, attempt, storeVars>>

-----------------------------------------------------------------------------
(* Properties.                                                             *)

LoopTypeOK ==
    /\ history \in Histories /\ mode \in Modes
    /\ phase \in {"idle", "fitting", "asking", "calling", "ended"}
    /\ kept \subseteq 1 .. history.length /\ removable \subseteq kept
    /\ exchanges \in Seq([role : {"assistant"}, calls : Nat]
                         \cup [role : {"tool"}, call : Nat])
    /\ load \in Nat
    /\ round \in 0 .. MaxRounds
    /\ called \subseteq Calls
    /\ todo \in Seq(Calls)
    /\ expired \in BOOLEAN
    /\ outcome \in Outcomes
    /\ phase = "ended" <=> outcome # "none"
    /\ attempt \in 0 .. MaxAttempts
    /\ \A key \in invoked : key[2] \in Calls
    /\ effects \in [Calls -> 0 .. 2] /\ executed \in [Calls -> 0 .. 2]

\* docs/architecture.md: "Old input history is removed first; the current
\* message, its immediate reply parent, and all tool exchanges are protected".
\* What the model is sent fits, contains them, and lacks only messages that
\* are older than all that could still go, the newest of which would not fit.
ContextIsNewest ==
    phase = "asking" =>
        LET gone == (1 .. history.length) \ kept
        spared == {history.length, history.parent} \ {0}
        IN
        /\ ContextSize(kept) <= Budget
        /\ spared \subseteq kept
        /\ \A i \in gone, j \in kept \ spared : j < history.length - 1 => i < j
        /\ gone # {} => ContextSize(kept \cup {Max(gone)}) > Budget

\* docs/architecture.md: "Assistant calls and role=tool results retain matching
\* provider IDs".  Whenever the model is asked, each call of each turn of this
\* run is followed by its one answer, in order, whatever became of the call.
EveryCallAnswered ==
    \A i \in DOMAIN exchanges :
        exchanges[i].role = "assistant" =>
            LET last == i + exchanges[i].calls IN
            /\ \A j \in i + 1 .. Min({last, Len(exchanges)}) :
                  exchanges[j] = ToolMessage(j - i)
            /\ last < Len(exchanges) => exchanges[last + 1].role = "assistant"
            /\ phase \in {"fitting", "asking"} => last <= Len(exchanges)

\* A run executes no call twice, also one that has failed.
NotRepeated == \A c \in Calls : executed[c] <= 1

\* A mutation takes effect at most once for an update, however many runs
\* answer it and wherever the earlier ones were cut off.
EffectOnce == \A c \in Calls : effects[c] <= 1

\* A run without the right to change the schedule changes nothing, whatever
\* the model asks for and whatever earlier runs for the update were allowed.
NoEffectWithoutRight == [][mode' = "group" => UNCHANGED storeVars]_loopVars
=============================================================================
