----------------------------- MODULE AgentReply -----------------------------
(***************************************************************************)
(* How one update is answered (internal/telegram/telegram.go, handle,      *)
(* recoverPendingReceipts and runAgentReply): the composition of           *)
(* AgentLoop, whose tools report their progress, and Delivery, which shows *)
(* it and the result.  The receipt of the update (module Receipts) is kept *)
(* as whether it is done; what is not done may be tried again by a new     *)
(* execution of the handler or, after a restart, by the recovery.  The     *)
(* answer to a command is one message here; /calendar, /people and /all    *)
(* may send several, one after the other.                                  *)
(***************************************************************************)
EXTENDS AgentLoop, Delivery

CONSTANT MaxCrashes  \* bound: times the process dies

ASSUME CrashAssumption == MaxCrashes \in Nat

VARIABLES
    private,  \* whether the update is the administrator's
    command,  \* "known" for a command, "unknown" for one without a case in
              \* privateCommand, "none" for any other text
    step,     \* where the handler stands
    needs,    \* what the receipt needs to be done: "reply" or "nothing"
    done,     \* whether the receipt is done
    crashes

handlerVars == <<private, command, step, needs, done, crashes>>
vars == <<loopVars, deliveryVars, handlerVars>>

Init ==
    /\ LoopInit /\ DeliveryInit
    /\ private \in BOOLEAN
    /\ command \in {"none", "known"} \cup (IF private THEN {"unknown"} ELSE {})
    /\ mode = "group"
    /\ step = "waiting" /\ needs = "reply" /\ done = FALSE /\ crashes = 0

Move(s) == step' = s /\ UNCHANGED <<private, command, needs, done, crashes>>

-----------------------------------------------------------------------------

\* handle has claimed the receipt and shows the placeholder.  A command that
\* the private chat does not know is left to the agent, whose error is dropped.
Handle(result, saved) ==
    /\ step = "waiting" /\ ~done /\ attempt < MaxAttempts
    /\ WithThinking(result, saved)
    /\ step' = IF command = "known" THEN "rendering" ELSE "starting"
    /\ needs' = IF command = "none" THEN "reply" ELSE "nothing"
    /\ UNCHANGED <<private, command, done, crashes, loopVars>>

\* A command's text is ready; /today and /week differ in their markup.
Render(p, bad) ==
    /\ step = "rendering"
    /\ Deliver(p, bad)
    /\ attempt' = attempt + 1
    /\ Move("delivering")
    /\ UNCHANGED <<history, mode, phase, contextVars, turnVars, expired, outcome,
                   storeVars, executed>>

StartAgent ==
    /\ step = "starting"
    /\ Begin(IF private THEN "admin_private" ELSE "group_write")
    /\ Move("running")
    /\ UNCHANGED deliveryVars

\* The recovery answers any update by the agent, without a placeholder.
Recover ==
    /\ step = "waiting" /\ ~done /\ crashes > 0
    /\ Begin(IF private THEN "admin_private" ELSE "group")
    /\ step' = "running" /\ needs' = "reply"
    /\ UNCHANGED <<private, command, done, crashes, deliveryVars>>

\* Run: a call that is executed first reports its progress.
Quiet ==
    /\ \/ Fit \/ ChatReplies \/ CallTooLate \/ Expire
       \/ \E kind \in Failures : ChatFails(kind)
       \/ \E t \in Turns : ChatCalls(t)
       \/ \E size \in ResultSizes : RefuseCall(size)
    /\ UNCHANGED deliveryVars

Working(result, saved) ==
    /\ \/ \E size \in ResultSizes : ExecuteCall(size)
       \/ ExecuteTooLong
    /\ UpdateThinking(result, saved)

RunStep ==
    /\ step = "running"
    /\ Quiet \/ \E result \in Results, saved \in BOOLEAN : Working(result, saved)
    /\ UNCHANGED handlerVars

\* The reply, or the text that reports the error, is delivered without markup.
DeliverResult ==
    /\ step = "running" /\ phase = "ended"
    /\ Deliver("plain", FALSE)
    /\ Move("delivering")
    /\ UNCHANGED loopVars

Deliveries ==
    /\ step = "delivering"
    /\ DeliveryStep
    /\ UNCHANGED <<loopVars, handlerVars>>

\* Faulty variant of Settles: the error of the delivery is not looked at.
SettlesAlways == TRUE

\* Whether the receipt is completed: the agent's reply must have been sent,
\* unless the text is a command that a handler answers.
Settles == sending = "sent" \/ needs = "nothing"

\* The receipt is completed or released.
Finish ==
    /\ step = "delivering" /\ sending \in {"sent", "failed"}
    /\ done' = Settles
    /\ step' = "waiting" /\ needs' = "reply"
    /\ Abandon /\ Forget
    /\ UNCHANGED <<private, command, crashes>>

\* The process dies at any point and is started again.
Crash ==
    /\ crashes < MaxCrashes
    /\ crashes' = crashes + 1
    /\ step' = "waiting" /\ needs' = "reply"
    /\ Abandon /\ Forget
    /\ UNCHANGED <<private, command, done>>

Next ==
    \/ \E result \in Results, saved \in BOOLEAN : Handle(result, saved)
    \/ \E p \in Markups, bad \in BOOLEAN : Render(p, bad)
    \/ StartAgent
    \/ Recover
    \/ RunStep
    \/ DeliverResult
    \/ Deliveries
    \/ Finish
    \/ LateEditArrives /\ UNCHANGED <<loopVars, handlerVars>>
    \/ Crash

Spec == Init /\ [][Next]_vars

\* What goes on by itself: the steps of a handler, the deadline of Run, and
\* the return of every request within its own timeout.  The model need not
\* answer and Telegram need not agree.
Own ==
    \/ /\ step = "running"
       /\ \/ Fit \/ Expire \/ CallTooLate
          \/ expired /\ \E kind \in Failures : ChatFails(kind)
       /\ UNCHANGED <<deliveryVars, handlerVars>>
    \/ StartAgent
    \/ \E p \in Markups, bad \in BOOLEAN : Render(p, bad)
    \/ DeliverResult
    \/ Deliveries
    \/ Finish

FairSpec == Spec /\ WF_vars(Own)

-----------------------------------------------------------------------------
(* Properties.                                                             *)

TypeOK ==
    /\ LoopTypeOK /\ DeliveryTypeOK
    /\ private \in BOOLEAN /\ command \in {"none", "known", "unknown"}
    /\ needs \in {"reply", "nothing"}
    /\ step \in {"waiting", "starting", "rendering", "running", "delivering"}
    /\ phase # "idle" => step \in {"running", "delivering"}
    /\ sending # "no" => step = "delivering"
    /\ done \in BOOLEAN /\ crashes \in 0 .. MaxCrashes

\* The rounds of a run: the calls and their answers correspond (AgentLoop), no
\* call runs twice, and none takes effect twice for the update.
ReplyInv == TypeOK /\ EveryCallAnswered /\ NotRepeated /\ EffectOnce

\* telegram.go, deliver: "retries as plain text so the user always receives the
\* result exactly once".  However edits and sends are refused and fall back on
\* one another, and however often the update is tried again, the result is
\* shown at most once, unless Telegram did what it reported as an error or the
\* process died after showing it.  When the request is settled it has been shown,
\* except for a command, whose errors are ignored.
AnswerOnce ==
    /\ ~unreported /\ crashes = 0 => Cardinality(Answers) <= 1
    /\ done => command # "none" \/ Answers # {}

\* telegram.go, updateThinking, "keeps a single visible progress message while
\* the agent works", not after it: the answer stays.
AnswerStays == done => command # "none" \/ Finals # {}

\* When nothing but markup was refused, one message is left, with the result:
\* no placeholder and no progress line stays behind.
NothingLeftBehind ==
    done /\ ~unreported /\ ~refused /\ crashes = 0 => shown = <<"final">>

\* The conversation store has the answer as it was shown, so that a reply to
\* it finds it, unless a row could not be written.
AnswerIsStored ==
    done /\ ~unsaved /\ command = "none" => \E m \in Answers : rows[m] = "final"

\* Every execution ends, also when the provider never answers: the receipt is
\* completed or released, or the process dies.
ExecutionEnds == step # "waiting" ~> step = "waiting"
=============================================================================
