------------------------------ MODULE Delivery ------------------------------
(***************************************************************************)
(* The sender's side of one update (internal/telegram/telegram.go): the    *)
(* provisional "thinking" message, its progress edits, and deliver, which  *)
(* puts the final text into that message or, failing that, into a new one. *)
(*                                                                         *)
(* Each request to Telegram is done, refused, or reported as an error      *)
(* although Telegram has carried it out; one that the sender has given up  *)
(* waiting for may be carried out later still.  A row of messages is       *)
(* written after the request, and that may fail too.                       *)
(***************************************************************************)
EXTENDS Integers, Sequences

CONSTANTS
    Results,  \* what may become of a request: subset of the four below
    MaxFaults \* bound: requests and rows that fail

Texts == {"thinking", "progress", "final"}
Markups == {"plain", "html", "markdown"}

ASSUME DeliveryAssumption ==
    /\ Results \subseteq {"done", "refused", "unreported", "late"}
    /\ MaxFaults \in Nat

VARIABLES
    shown,        \* the bot's messages in the chat for the update, in order
    rows,         \* the text of each in messages, "none" without a row
    placeholder,  \* thinkingResponse: the message to edit, 0 if none or used
    late,         \* edits nobody waits for, still to be carried out
    overwritten,  \* history: the answers that such an edit has replaced
    sending,      \* where deliver stands
    markup,       \* the parse mode of the text being delivered
    badMarkup,    \* whether Telegram refuses the text in that parse mode
    unreported,   \* history: a request was carried out and not reported
    refused,      \* history: a request failed for another reason than its markup
    unsaved,      \* history: a row could not be written
    faults        \* how many requests and rows have failed

failureVars == <<unreported, refused, unsaved, faults>>
deliveryVars == <<shown, rows, placeholder, late, overwritten, sending, markup, badMarkup,
                  failureVars>>

DeliveryInit ==
    /\ shown = <<>> /\ rows = <<>> /\ placeholder = 0 /\ late = {} /\ overwritten = {}
    /\ sending = "no" /\ markup = "plain" /\ badMarkup = FALSE
    /\ unreported = FALSE /\ refused = FALSE /\ unsaved = FALSE /\ faults = 0

-----------------------------------------------------------------------------
(* Requests.                                                               *)

\* What the history keeps of a request; excused is a refusal of bad markup.
Noted(result, saved, excused) ==
    /\ unreported' = (unreported \/ result \in {"unreported", "late"})
    /\ refused' = (refused \/ (result = "refused" /\ ~excused))
    /\ unsaved' = (unsaved \/ ~saved)
    /\ IF excused \/ (result = "done" /\ saved) THEN UNCHANGED faults
       ELSE faults < MaxFaults /\ faults' = faults + 1

\* Faulty variant of EditMessage: the row keeps the placeholder's text.
EditMessageOnly(m, text, result, saved, excused) ==
    /\ ~saved => result = "done"
    /\ shown' = IF result \in {"done", "unreported"} THEN [shown EXCEPT ![m] = text] ELSE shown
    /\ late' = IF result = "late" THEN late \cup {[message |-> m, text |-> text]} ELSE late
    /\ UNCHANGED <<rows, overwritten>>
    /\ Noted(result, saved, excused)

\* editMessageText of message m, then UpdateBotText, which needs a row.
EditMessage(m, text, result, saved, excused) ==
    /\ ~saved => result = "done"
    /\ shown' = IF result \in {"done", "unreported"} THEN [shown EXCEPT ![m] = text] ELSE shown
    /\ late' = IF result = "late" THEN late \cup {[message |-> m, text |-> text]} ELSE late
    /\ rows' = IF result = "done" /\ saved /\ rows[m] # "none"
               THEN [rows EXCEPT ![m] = text] ELSE rows
    /\ UNCHANGED overwritten
    /\ Noted(result, saved, excused)

\* sendMessage and StoreBot: post.  A message that comes late is one whose
\* answer is lost.
Post(text, result, saved, excused) ==
    /\ result # "late" /\ (~saved => result = "done")
    /\ IF result = "refused" THEN UNCHANGED <<shown, rows>>
       ELSE /\ shown' = Append(shown, text)
            /\ rows' = Append(rows, IF result = "done" /\ saved THEN text ELSE "none")
    /\ UNCHANGED <<late, overwritten>>
    /\ Noted(result, saved, excused)

\* An edit that timed out here is carried out by Telegram.
LateEditArrives ==
    \E e \in late :
        /\ late' = late \ {e}
        /\ shown' = [shown EXCEPT ![e.message] = e.text]
        /\ overwritten' = IF shown[e.message] = "final" /\ e.text # "final"
                          THEN overwritten \cup {e.message} ELSE overwritten
        /\ UNCHANGED <<rows, placeholder, sending, markup, badMarkup, failureVars>>

-----------------------------------------------------------------------------
(* The sender's operations.                                                *)

\* withThinking: without a confirmed message there is no placeholder.
WithThinking(result, saved) ==
    /\ Post("thinking", result, saved, FALSE)
    /\ placeholder' = IF result = "done" THEN Len(shown') ELSE 0
    /\ UNCHANGED <<sending, markup, badMarkup>>

\* updateThinking: an error is only logged.
UpdateThinking(result, saved) ==
    \/ placeholder = 0 /\ UNCHANGED deliveryVars
    \/ /\ placeholder # 0
       /\ EditMessage(placeholder, "progress", result, saved, FALSE)
          /\ UNCHANGED <<placeholder, sending, markup, badMarkup>>

\* deliver is called with a text in parse mode p, which Telegram refuses if bad.
Deliver(p, bad) ==
    /\ sending = "no"
    /\ sending' = IF placeholder # 0 THEN "edit" ELSE "post"
    /\ markup' = p /\ badMarkup' = (bad /\ p # "plain")
    /\ UNCHANGED <<shown, rows, placeholder, late, overwritten, failureVars>>

Formatted == sending \in {"edit", "post"} /\ markup # "plain"

\* Faulty variant of AfterError: a refused edit is not tried without markup.
AfterErrorPost ==
    CASE sending \in {"edit", "plain edit"} -> "post"
      [] sending = "post" /\ markup = "markdown" -> "plain post"
      [] OTHER -> "failed"

\* What deliver does after an error: an edit is tried without markup and then
\* gives way to a new message; only Markdown falls back when it is posted.
AfterError ==
    CASE sending = "edit" /\ markup # "plain" -> "plain edit"
      [] sending = "edit" /\ markup = "plain" -> "post"
      [] sending = "plain edit" -> "post"
      [] sending = "post" /\ markup = "markdown" -> "plain post"
      [] OTHER -> "failed"

\* Faulty variant of Attempted: the second edit does not overwrite the error of
\* the first.
AttemptedShadowed(result) ==
    /\ Formatted /\ badMarkup => result = "refused"
    /\ sending' = IF result = "done" /\ sending # "plain edit" THEN "sent" ELSE AfterError
    /\ UNCHANGED <<markup, badMarkup>>

\* What an attempt to show the final text leads to.
Attempted(result) ==
    /\ Formatted /\ badMarkup => result = "refused"
    /\ sending' = IF result = "done" THEN "sent" ELSE AfterError
    /\ UNCHANGED <<markup, badMarkup>>

\* finishThinking: the placeholder is used once, however it ends.
FinishThinking(result, saved) ==
    /\ sending \in {"edit", "plain edit"}
    /\ EditMessage(placeholder, "final", result, saved, Formatted /\ badMarkup)
    /\ Attempted(result)
    /\ placeholder' = IF sending' = "plain edit" THEN placeholder ELSE 0

PostFinal(result, saved) ==
    /\ sending \in {"post", "plain post"}
    /\ Post("final", result, saved, Formatted /\ badMarkup)
    /\ Attempted(result)
    /\ UNCHANGED placeholder

\* The handler is done with the update, or died: it no longer knows its
\* placeholder.
Abandon ==
    /\ sending' = "no" /\ placeholder' = 0 /\ markup' = "plain" /\ badMarkup' = FALSE
    /\ UNCHANGED <<shown, rows, late, overwritten, failureVars>>

DeliveryStep ==
    \E result \in Results, saved \in BOOLEAN :
        \/ FinishThinking(result, saved)
        \/ PostFinal(result, saved)

-----------------------------------------------------------------------------

DeliveryTypeOK ==
    /\ shown \in Seq(Texts)
    /\ rows \in Seq(Texts \cup {"none"}) /\ Len(rows) = Len(shown)
    /\ placeholder \in 0 .. Len(shown)
    /\ late \subseteq [message : 1 .. Len(shown), text : Texts]
    /\ overwritten \subseteq 1 .. Len(shown)
    /\ sending \in {"no", "edit", "plain edit", "post", "plain post", "sent", "failed"}
    /\ sending \in {"edit", "plain edit"} => placeholder # 0
    /\ markup \in Markups /\ badMarkup \in BOOLEAN
    /\ unreported \in BOOLEAN /\ refused \in BOOLEAN /\ unsaved \in BOOLEAN
    /\ faults \in 0 .. MaxFaults

Finals == {m \in DOMAIN shown : shown[m] = "final"}
Answers == Finals \cup overwritten
=============================================================================
