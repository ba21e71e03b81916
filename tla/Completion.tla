------------------------------ MODULE Completion ------------------------------
(***************************************************************************)
(* One exchange with the model's provider: the retry loops of              *)
(* internal/ai/chat.go (requestChat, also under legacy.go) and             *)
(* internal/ai/ai.go (complete), and the decoders of what comes back.      *)
(*                                                                         *)
(* A response is a sequence of chunks, one JSON text each: a whole message *)
(* or, as the provider likes, any number of deltas in which the content    *)
(* and the tool calls arrive piece by piece.  Texts are sequences of       *)
(* pieces; how JSON and "data:" lines are told apart is left out, and so   *)
(* is AI_STRICT_TOOLS, under which a native turn's arguments lose the null *)
(* properties a tool does not require (normalizeStrictCalls), its calls    *)
(* being the same.  The code decodes a response when it has all of it; here *)
(* each chunk is consumed as it comes, which gives the same.               *)
(***************************************************************************)
EXTENDS Integers, Sequences, FiniteSets, FiniteSetsExt, SequencesExt

CONSTANTS
    Turns,    \* what the provider may say: [content, calls]
    Objects,  \* the contents that are objects of the legacy protocol
    MaxNoise  \* bound: chunks that are no part of the turn

IsText(s) == s \in Seq({s[i] : i \in DOMAIN s})

\* A call comes in at least one piece.
ASSUME CompletionAssumption ==
    /\ MaxNoise \in Nat
    /\ \A t \in Turns :
          /\ IsText(t.content) /\ IsText(t.calls)
          /\ \A i \in DOMAIN t.calls :
                /\ IsText(t.calls[i].name)
                /\ IsText(t.calls[i].args) /\ t.calls[i].args # <<>>
                /\ t.calls[i] = [id |-> t.calls[i].id, name |-> t.calls[i].name,
                                 args |-> t.calls[i].args]
    /\ \A c \in DOMAIN Objects : IsText(Objects[c].calls)

Apis == {"native", "legacy", "complete"}
\* How an attempt fails; "4xx" stands for every status that is not named.
Statuses == {"none", "broken", "4xx", "429", "5xx"}

Piece(i, id, type, name, args) ==
    [index |-> i, id |-> id, type |-> type, name |-> name, args |-> args]
Chunk(choice, delta, content, parts, finish) ==
    [kind |-> "completion", choice |-> choice, delta |-> delta,
     content |-> content, parts |-> parts, finish |-> finish]

Decoded == [error |-> FALSE, content |-> <<>>, calls |-> <<>>, finish |-> "none"]

VARIABLES
    api,       \* Chat in native or legacy_json mode, or Complete
    phase,     \* where the loop stands
    attempt,
    expired,   \* whether the caller's context is done
    result,    \* what the caller gets
    turn,      \* what the provider says
    given,     \* how much of each call it has sent
    said,      \* how much of the content
    finish,    \* the finish_reason it has sent
    noise,     \* what it has sent that is no part of the turn
    decoded,   \* what has been decoded in this attempt
    seen       \* history: how the attempts have failed

providerVars == <<turn, given, said, finish, noise, decoded>>
vars == <<api, phase, attempt, expired, result, providerVars, seen>>

Pending == [kind |-> "none", content |-> <<>>, calls |-> <<>>]
Failed(kind) == [Pending EXCEPT !.kind = kind]

Init ==
    /\ api \in Apis /\ turn \in Turns
    /\ api # "native" => turn.calls = <<>>
    /\ phase = "sending" /\ attempt = 0 /\ expired = FALSE /\ result = Pending
    /\ given = [i \in DOMAIN turn.calls |-> 0] /\ said = 0 /\ finish = "none"
    /\ noise = {} /\ decoded = Decoded /\ seen = {}

-----------------------------------------------------------------------------
(* The decoders.                                                           *)

\* An empty finish_reason or type is written "none".
NoCall == [id |-> <<>>, type |-> "none", name |-> <<>>, args |-> <<>>]

\* The calls of a message are numbered by their places.
IndexOf(chunk, k) == IF chunk.delta THEN chunk.parts[k].index ELSE k

\* Faulty variant of Conflicts: a call takes the last id it is given.
ConflictsNever(old, part) == FALSE

Conflicts(old, part) == part.id # <<>> /\ old.id # <<>> /\ old.id # part.id

\* A part is merged into the call with its index.
Merge(out, chunk, k) ==
    LET part == chunk.parts[k]
        i == IndexOf(chunk, k)
        old == IF i \in DOMAIN out.calls THEN out.calls[i] ELSE NoCall
        merged == [id |-> IF part.id # <<>> THEN part.id ELSE old.id,
                   type |-> IF part.type # "none" THEN part.type ELSE old.type,
                   name |-> old.name \o part.name, args |-> old.args \o part.args]
    IN  IF out.error \/ Conflicts(old, part) THEN [out EXCEPT !.error = TRUE]
        ELSE [out EXCEPT !.calls =
                 [j \in DOMAIN out.calls \cup {i} |-> IF j = i THEN merged ELSE out.calls[j]]]

\* consume: one JSON text of the response.
Consume(out, chunk) ==
    IF out.error \/ chunk.kind # "completion" THEN [out EXCEPT !.error = TRUE]
    ELSE IF chunk.choice # 0 THEN out
    ELSE FoldLeft(LAMBDA o, k : Merge(o, chunk, k),
                  [error |-> FALSE, content |-> out.content \o chunk.content, calls |-> out.calls,
                   finish |-> IF chunk.finish # "none" THEN chunk.finish ELSE out.finish],
                  [k \in DOMAIN chunk.parts |-> k])

\* Every call has a name and an id of its own.
Identified(calls) ==
    /\ \A i \in DOMAIN calls :
          calls[i].id # <<>> /\ calls[i].name # <<>> /\ calls[i].type = "function"
    /\ \A i, j \in DOMAIN calls : i # j => calls[i].id # calls[j].id

\* Faulty variant of Places: the calls are taken in another order.
PlacesUnsorted(calls) ==
    [n \in 1 .. Cardinality(DOMAIN calls) |->
        CHOOSE i \in DOMAIN calls : Cardinality({j \in DOMAIN calls : j > i}) = n - 1]

\* The indexes in ascending order: the n-th has n - 1 before it.
Places(calls) ==
    [n \in 1 .. Cardinality(DOMAIN calls) |->
        CHOOSE i \in DOMAIN calls : Cardinality({j \in DOMAIN calls : j < i}) = n - 1]

\* decodeAssistant, after the last chunk.
Assistant(out) ==
    LET places == Places(out.calls)
        calls == [n \in DOMAIN places |->
                     [id |-> out.calls[places[n]].id, name |-> out.calls[places[n]].name,
                      args |-> out.calls[places[n]].args]]
    IN  IF \/ out.error \/ ~Identified(out.calls)
           \/ out.finish = "length" /\ calls # <<>>
           \/ out.content = <<>> /\ calls = <<>>
        THEN Failed("provider_protocol")
        ELSE [kind |-> "turn", content |-> out.content, calls |-> calls]

\* legacyChat: the content must be an object that names the calls; they are
\* given ids by their places.
Legacy(answer) ==
    IF answer.kind # "turn" THEN answer
    ELSE IF answer.content \notin DOMAIN Objects THEN Failed("provider_protocol")
    ELSE LET o == Objects[answer.content] IN
         IF \/ \E i \in DOMAIN o.calls : o.calls[i] = <<>>
            \/ o.reply = <<>> /\ o.calls = <<>>
         THEN Failed("provider_protocol")
         ELSE [kind |-> "turn", content |-> o.reply,
               calls |-> [i \in DOMAIN o.calls |->
                             [id |-> <<"legacy", i>>, name |-> o.calls[i], args |-> <<>>]]]

\* decodeChatContent: a text that is no chunk is skipped, and so are calls.
ConsumeText(out, chunk) ==
    IF chunk.kind # "completion" THEN out
    ELSE [out EXCEPT !.content = @ \o chunk.content]

Text(out) ==
    IF out.content = <<>> THEN Failed("provider_protocol")
    ELSE [kind |-> "turn", content |-> out.content, calls |-> <<>>]

Answer(out) ==
    CASE api = "native" -> Assistant(out)
      [] api = "legacy" -> Legacy(Assistant(out))
      [] OTHER -> Text(out)

-----------------------------------------------------------------------------
(* The provider (external): a response with status 200.                    *)

Send(chunk) ==
    /\ phase = "receiving" /\ finish = "none"
    /\ decoded' = IF api = "complete" THEN ConsumeText(decoded, chunk)
                  ELSE Consume(decoded, chunk)
    /\ finish' = IF chunk.kind = "completion" /\ chunk.choice = 0
                 THEN chunk.finish ELSE finish
    /\ UNCHANGED <<api, phase, attempt, expired, result, turn, seen>>

SendContent ==
    /\ said < Len(turn.content)
    /\ Send(Chunk(0, TRUE, <<turn.content[said + 1]>>, <<>>, "none"))
    /\ said' = said + 1
    /\ UNCHANGED <<given, noise>>

OwnIds ==
    /\ \A i \in DOMAIN turn.calls : turn.calls[i].id # <<>>
    /\ \A i, j \in DOMAIN turn.calls : i # j => turn.calls[i].id # turn.calls[j].id

\* A piece of call i.  The first has the call's identity, a later one may
\* repeat the id; a provider whose ids are good may leave out the index of the
\* first.
SendPart(i, indexed, repeated) ==
    LET c == turn.calls[i]
        n == given[i] + 1
        opens == n = 1
    IN
    /\ n <= Len(c.args)
    /\ ~indexed => opens /\ Cardinality(noise) < MaxNoise /\ OwnIds
    /\ Send(Chunk(0, TRUE, <<>>,
                  <<Piece(IF indexed THEN i ELSE 1,
                          IF opens \/ repeated THEN c.id ELSE <<>>,
                          IF opens THEN "function" ELSE "none",
                          IF opens THEN c.name ELSE <<>>, <<c.args[n]>>)>>, "none"))
    /\ given' = [given EXCEPT ![i] = n]
    /\ noise' = IF indexed THEN noise ELSE noise \cup {"unindexed"}
    /\ UNCHANGED said

SendMessage ==
    /\ said = 0 /\ \A i \in DOMAIN given : given[i] = 0
    /\ Send(Chunk(0, FALSE, turn.content,
                  [i \in DOMAIN turn.calls |->
                      LET c == turn.calls[i] IN Piece(0, c.id, "function", c.name, c.args)],
                  "stop"))
    /\ said' = Len(turn.content)
    /\ given' = [i \in DOMAIN given |-> Len(turn.calls[i].args)]
    /\ UNCHANGED noise

\* The end of the turn, or of the tokens for it.
SendFinish(reason) ==
    /\ reason = "length" \/ /\ said = Len(turn.content)
                            /\ \A i \in DOMAIN given : given[i] = Len(turn.calls[i].args)
    /\ Send(Chunk(0, TRUE, <<>>, <<>>, reason))
    /\ UNCHANGED <<given, said, noise>>

\* An error envelope, a text that is not JSON, or a chunk of another choice.
SendNoise(kind) ==
    /\ Cardinality(noise) < MaxNoise /\ kind \notin noise
    /\ noise' = noise \cup {kind}
    /\ Send(IF kind # "choice" THEN [kind |-> kind]
            ELSE Chunk(1, TRUE, <<"other">>,
                       <<Piece(1, <<"other">>, "function", <<"other">>, <<>>)>>, "none"))
    /\ UNCHANGED <<given, said>>

-----------------------------------------------------------------------------
(* The loop.                                                               *)

End(r) == phase' = "ended" /\ result' = r

\* Faulty variant of Transient: a full provider is not asked again.
TransientOnly5xx(status) == status \in {"none", "5xx"} \cup IF api = "complete" THEN {"broken"} ELSE {}

\* The failures after which the request is sent again.  A response that breaks
\* off has status 200, which requestChat takes for a refusal.
Transient(status) ==
    status \in {"none", "429", "5xx"} \cup IF api = "complete" THEN {"broken"} ELSE {}

\* An attempt that has failed.
Fail(status) ==
    /\ seen' = seen \cup {status}
    /\ IF ~Transient(status) THEN End(Failed("provider_configuration"))
       ELSE IF attempt = 2 \/ (api = "complete" /\ expired)
       THEN End(Failed("provider_transport"))
       ELSE phase' = "pausing" /\ UNCHANGED result
    /\ UNCHANGED <<api, attempt, expired, providerVars>>

\* No response: no connection, a timeout, or the context is done.
NoAnswer == phase = "sending" /\ Fail("none")

\* A response that is no success; its body is read and dropped.
Refused(status) == phase = "sending" /\ ~expired /\ Fail(status)

\* A response with status 200 begins.
Answered ==
    /\ phase = "sending" /\ ~expired
    /\ phase' = "receiving"
    /\ UNCHANGED <<api, attempt, expired, result, providerVars, seen>>

\* The body ends, whether or not the provider has said all, and is decoded.
BodyEnds ==
    /\ phase = "receiving" /\ ~expired
    /\ End(Answer(decoded))
    /\ UNCHANGED <<api, attempt, expired, providerVars, seen>>

\* There is more of it than requestChat takes.
BodyTooLong ==
    /\ phase = "receiving" /\ ~expired /\ api # "complete"
    /\ End(Failed("provider_protocol"))
    /\ UNCHANGED <<api, attempt, expired, providerVars, seen>>

\* It breaks off.
BodyBreaks == phase = "receiving" /\ Fail("broken")

Restart ==
    /\ phase = "pausing" /\ phase' = "sending"
    /\ given' = [i \in DOMAIN given |-> 0] /\ said' = 0 /\ finish' = "none" /\ noise' = {}
    /\ decoded' = Decoded
    /\ UNCHANGED <<api, expired, result, turn, seen>>

\* Faulty variant of Again: the attempt is not counted.
AgainUncounted == Restart /\ UNCHANGED attempt

\* After a pause the same request is sent again.
Again == Restart /\ attempt' = attempt + 1

\* The context is done during the pause.
GiveUp ==
    /\ phase = "pausing" /\ expired
    /\ End(Failed("timeout"))
    /\ UNCHANGED <<api, attempt, expired, providerVars, seen>>

Expire ==
    /\ phase # "ended" /\ ~expired
    /\ expired' = TRUE
    /\ UNCHANGED <<api, phase, attempt, result, providerVars, seen>>

Provider ==
    \/ SendContent
    \/ SendMessage
    \/ \E i \in DOMAIN turn.calls, indexed, repeated \in BOOLEAN : SendPart(i, indexed, repeated)
    \/ \E reason \in {"stop", "length"} : SendFinish(reason)
    \/ \E kind \in {"error", "junk", "choice"} : SendNoise(kind)

Client ==
    \/ NoAnswer
    \/ \E status \in {"4xx", "429", "5xx"} : Refused(status)
    \/ Answered \/ BodyEnds \/ BodyTooLong \/ BodyBreaks
    \/ Again \/ GiveUp

Next == Provider \/ Client \/ Expire

\* Every request ends, since the client waits for 90 seconds at most, and so
\* does a pause.  Neither the provider nor the deadline of the caller is fair.
Spec == Init /\ [][Next]_vars /\ WF_vars(Client)

-----------------------------------------------------------------------------
(* Properties.                                                             *)

TypeOK ==
    /\ api \in Apis /\ turn \in Turns
    /\ phase \in {"sending", "receiving", "pausing", "ended"}
    /\ attempt \in 0 .. 2 /\ expired \in BOOLEAN
    /\ result.kind \in {"none", "turn", "timeout", "provider_configuration",
                        "provider_protocol", "provider_transport"}
    /\ phase = "ended" <=> result.kind # "none"
    /\ \A i \in DOMAIN given : given[i] \in 0 .. Len(turn.calls[i].args)
    /\ said \in 0 .. Len(turn.content)
    /\ finish \in {"none", "stop", "length"} /\ Cardinality(noise) <= MaxNoise
    /\ phase = "sending" => decoded = Decoded
    /\ seen \subseteq Statuses

\* What the provider's turn means to the caller.
Meant == IF api = "legacy" THEN Objects[turn.content] ELSE turn

\* docs/architecture.md: "JSON and SSE fragmented calls are decoded".  A turn
\* that was said to its end reaches the caller as it was said, in whatever
\* pieces and order of calls it came, after whatever attempts before.
TurnIsExact ==
    result.kind = "turn" /\ finish = "stop" /\ (api = "complete" => "choice" \notin noise) =>
        /\ result.content = IF api = "legacy" THEN Meant.reply ELSE Meant.content
        /\ Len(result.calls) = Len(Meant.calls)
        /\ \A i \in DOMAIN result.calls :
              IF api = "legacy" THEN result.calls[i].name = Meant.calls[i]
              ELSE result.calls[i] = turn.calls[i]

\* Of a turn that was not said to its end, or not well, nothing reaches the
\* agent that was not said: each call is the beginning of one of the turn.
NothingInvented ==
    result.kind = "turn" /\ api = "native" =>
        /\ IsPrefix(result.content, turn.content)
        /\ \A i \in DOMAIN result.calls : \E j \in DOMAIN turn.calls :
              /\ result.calls[i].id = turn.calls[j].id
              /\ result.calls[i].name = turn.calls[j].name
              /\ IsPrefix(result.calls[i].args, turn.calls[j].args)

\* What AgentLoop relies on: the calls of a turn have names and ids of their
\* own, and none is left of a turn that was cut off for its length.
CallsCanBeRun ==
    result.kind = "turn" =>
        /\ \A i \in DOMAIN result.calls : result.calls[i].id # <<>> /\ result.calls[i].name # <<>>
        /\ \A i, j \in DOMAIN result.calls : i # j => result.calls[i].id # result.calls[j].id
        /\ api = "native" /\ finish = "length" => result.calls = <<>>

\* What reaches the agent of a turn, whole or not.
CallsAreSound == TypeOK /\ NothingInvented /\ CallsCanBeRun

\* docs/architecture.md: "HTTP 429 and 5xx are retried; other 4xx are not".
\* After a refusal the caller is told so at once.  No connection, 429 and 5xx are
\* never reported as one, nor, before the deadline, at all unless they came three
\* times.  The exception is a chat whose response broke off, with status 200: it
\* may pass as well, but is reported as a refusal, and is not asked for again.
TransientIsMasked ==
    /\ "4xx" \in seen => result.kind = "provider_configuration"
    /\ result.kind = "provider_configuration" =>
          "4xx" \in seen \/ ("broken" \in seen /\ api # "complete")
    /\ result.kind = "provider_transport" => attempt = 2 \/ expired
    /\ result.kind = "turn" => "4xx" \notin seen /\ ("broken" \in seen => api = "complete")

\* src/internal/telegram/telegram.go, agentErrorReply, tells the user of a
\* provider_configuration that the service refused the request.
ConfigurationMeansRefused ==
    [][result'.kind = "provider_configuration" /\ result.kind = "none" => phase = "sending"]_vars

\* Every exchange ends, also with a provider that fails each time, and without
\* the caller's deadline.
ChatEnds == <>(phase = "ended")
=============================================================================
