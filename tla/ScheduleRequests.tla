-------------------------- MODULE ScheduleRequests --------------------------
(***************************************************************************)
(* The callers of the schedule store: the agent's mutation tools           *)
(* (internal/agent/tools.go, exclusion.go), ApplyImport behind the batch   *)
(* tools, and the mutation handlers of the Hermes API                      *)
(* (internal/api/api.go).  Between the store's transactions they read, and *)
(* what they read may be stale when they write.                            *)
(*                                                                         *)
(* A request is a tool call or an HTTP request: a sequence of items, each  *)
(* with the key of its mutation.  It may be executed again and again: the  *)
(* answer was lost, the process died, or the client gave up waiting, so    *)
(* that executions of one request of Hermes overlap.  A tool call runs     *)
(* once at a time, because its Telegram update has one owner (Receipts).   *)
(***************************************************************************)
EXTENDS Schedule

CONSTANTS
    Requests,
    Items,       \* the keys of each request's items, in order
    Batches,     \* requests for a batch tool or POST /events/batch
    Input,       \* the content each key's call carries
    Keep,        \* a field of an update's input that stays as it was read
    Executors,   \* concurrent executions; a bound on concurrency
    Idle         \* an executor without a request

Origin(r) == Call[Items[r][1]].origin

\* What a client or the agent can ask for: a rule without a limit or with one
\* of the user's, and for an update a change of some of the fields.
Asked == Contents({"single", "open", "until"})
Asking == [title : Titles \cup {Keep}, place : Places \cup {Keep},
           rule : {"single", "open", "until", Keep}, note : Notes \cup {Keep},
           tags : (SUBSET Tags) \cup {Keep}, raw : SUBSET Raw]

\* What is kept of an event that was read; NoVersion is none of these.
EventVersions ==
    [id : Nat, content : Contents(StoredRules), status : Statuses \cup {"none"},
     excluded : SUBSET Dates]

ASSUME NoVersionAssumption == NoVersion \notin EventVersions

ASSUME RequestsAssumption ==
    /\ Batches \subseteq Requests
    /\ \A r \in Requests : /\ Items[r] \in Seq(Keys) \ {<<>>}
                           /\ \A i \in DOMAIN Items[r] :
                                 Call[Items[r][i]].origin = Origin(r)
    /\ \A k \in Keys : \E r \in Requests : \E i \in DOMAIN Items[r] : Items[r][i] = k
    /\ \A q, r \in Requests : \A i \in DOMAIN Items[q], j \in DOMAIN Items[r] :
          Items[q][i] = Items[r][j] => q = r /\ i = j
    /\ \A k \in Keys : /\ Call[k].op = "create" => Input[k] \in Asked
                       /\ Call[k].op = "update" => Input[k] \in Asking
    /\ Idle \notin Requests

VARIABLES
    etag,    \* the version of its target each Hermes call was written for
    sent,    \* requests that were sent at least once
    task,    \* the request of each executor
    item,    \* the item it has reached
    stage,   \* and the next statement on it
    seen,    \* the events it has read, by key
    answers  \* history: the answers given for each key, with their ETag

clientVars == <<etag, sent>>
executorVars == <<task, item, stage, seen>>
requestVars == <<storeVars, clientVars, executorVars, answers>>

Init ==
    /\ StoreInit
    /\ etag = [k \in Keys |-> NoVersion]
    /\ sent = {}
    /\ task = [x \in Executors |-> Idle]
    /\ item = [x \in Executors |-> 1]
    /\ stage = [x \in Executors |-> "idle"]
    /\ seen = [x \in Executors |-> [k \in Keys |-> NoVersion]]
    /\ answers = [k \in Keys |-> {}]

-----------------------------------------------------------------------------
Key(x) == Items[task[x]][item[x]]
Imports(r) == r \in Batches /\ Origin(r) = "agent"

\* The first statement for item i of r.
Entry(r, i) ==
    LET op == Call[Items[r][i]].op
        hermes == Origin(r) = "hermes"
    IN
    IF Imports(r) THEN "check"
    ELSE IF r \in Batches \/ op \in {"update", "cancel"} THEN "lookup"
    ELSE IF op = "create" THEN IF hermes THEN "create" ELSE "lookup"
    ELSE IF hermes THEN "read" ELSE "exclude"

\* The statement after a lookup that found nothing.
AfterLookup(k) ==
    IF Call[k].op # "create" THEN "read"
    ELSE IF Call[k].origin = "hermes" THEN "create" ELSE "apply"

\* The content a call asks for: an update changes what was read, by the tool
\* that applies it or by Hermes, which sends the JSON it read, changed.
Body(k, read) ==
    IF Call[k].op = "update"
    THEN LET old == IF Call[k].origin = "hermes" THEN etag[k] ELSE read IN
         [f \in DOMAIN Input[k] |->
            IF Input[k][f] = Keep THEN old.content[f] ELSE Input[k][f]]
    ELSE Input[k]

Before(x) == LET read == seen[x][Key(x)] IN
             IF read = NoVersion THEN NoVersion ELSE Snapshot(read)

Stop(x) ==
    /\ task' = [task EXCEPT ![x] = Idle]
    /\ item' = [item EXCEPT ![x] = 1]
    /\ stage' = [stage EXCEPT ![x] = "idle"]
    /\ seen' = [seen EXCEPT ![x] = [k \in Keys |-> NoVersion]]

\* The proposal of a call; an import moves it to midnight before it applies it.
Proposal(x) ==
    LET body == Body(Key(x), seen[x][Key(x)]) IN
    IF Imports(task[x]) THEN AtMidnight(body) ELSE body

\* On to the next item, or back to waiting after the last one.
Advance(x) ==
    IF item[x] < Len(Items[task[x]])
    THEN /\ item' = [item EXCEPT ![x] = @ + 1]
         /\ stage' = [stage EXCEPT ![x] = Entry(task[x], item[x] + 1)]
         /\ UNCHANGED <<task, seen>>
    ELSE Stop(x)

Goto(x, next) ==
    /\ stage' = [stage EXCEPT ![x] = next]
    /\ UNCHANGED <<task, item>>

Told(x, out, version) ==
    answers' = [answers EXCEPT ![Key(x)] = @ \cup {<<out, version>>}]

Answer(x, out) == Told(x, out, NoVersion) /\ Advance(x)

-----------------------------------------------------------------------------
(* The clients.                                                            *)

\* Hermes reads the event it is going to change: GET /events/{id}.
ClientReads(r, k) ==
    /\ r \notin sent
    /\ \E i \in DOMAIN Items[r] : Items[r][i] = k
    /\ Call[k].origin = "hermes" /\ Call[k].op # "create"
    /\ Call[k].id \in DOMAIN events
    /\ etag[k] # Snapshot(Get(Call[k].id))
    /\ etag' = [etag EXCEPT ![k] = Snapshot(Get(Call[k].id))]
    /\ UNCHANGED <<storeVars, sent, executorVars, answers>>

\* A request is sent, or sent again, and an executor takes it up.
Send(x, r) ==
    /\ task[x] = Idle
    /\ Origin(r) = "agent" => \A y \in Executors : task[y] # r
    /\ sent' = sent \cup {r}
    /\ task' = [task EXCEPT ![x] = r]
    /\ stage' = [stage EXCEPT ![x] = IF Imports(r) THEN "prepare" ELSE Entry(r, 1)]
    /\ UNCHANGED <<storeVars, etag, item, seen, answers>>

-----------------------------------------------------------------------------
(* The statements of an execution.                                         *)

\* InvocationResult before the target is resolved.
Lookup(x) ==
    /\ stage[x] = "lookup"
    /\ IF receipts[Key(x)] # 0
       THEN Answer(x, "replayed")
       ELSE Goto(x, AfterLookup(Key(x))) /\ UNCHANGED <<seen, answers>>
    /\ UNCHANGED <<storeVars, clientVars>>

\* The handler or the tool refuses what it read.  If-Match is required, and
\* compared here for all but a single exclusion.
Refusal(k) ==
    LET id == Call[k].id
        hermes == Call[k].origin = "hermes"
        single == \E r \in Requests \ Batches : Items[r] = <<k>>
    IN
    {out \in {"missing", "inactive", "stale"} :
        \/ out = "missing" /\ id \notin DOMAIN events
        \/ /\ id \in DOMAIN events
           /\ \/ out = "inactive" /\ ~hermes /\ events[id].status # "active"
              \/ /\ out = "stale" /\ hermes
                 /\ \/ etag[k] = NoVersion
                    \/ etag[k] # Snapshot(Get(id)) /\ ~(single /\ Call[k].op = "exclude")}

\* Get(target), and the checks on it.
Read(x) ==
    LET k == Key(x) IN
    /\ stage[x] = "read"
    /\ \/ \E out \in Refusal(k) : Answer(x, out)
       \/ /\ Refusal(k) = {}
          /\ seen' = [seen EXCEPT ![x][k] = Get(Call[k].id)]
          /\ Goto(x, IF Call[k].op = "exclude" THEN "exclude" ELSE "apply")
          /\ UNCHANGED answers
    /\ UNCHANGED <<storeVars, clientVars>>

\* Faulty variant of Prepare: the stored results are not looked at.
PrepareAgain(x) ==
    LET k == Key(x)
        id == Call[k].id
        reads == Call[k].op = "update"
        active == id \in DOMAIN events /\ events[id].status = "active"
    IN
    /\ stage[x] = "prepare"
    /\ IF reads /\ ~active
       THEN Told(x, "inactive", NoVersion) /\ Stop(x)
       ELSE /\ IF reads THEN seen' = [seen EXCEPT ![x][k] = Get(id)]
                        ELSE UNCHANGED seen
            /\ UNCHANGED <<task, answers>>
            /\ IF item[x] < Len(Items[task[x]])
               THEN item' = [item EXCEPT ![x] = @ + 1] /\ UNCHANGED stage
               ELSE /\ item' = [item EXCEPT ![x] = 1]
                    /\ stage' = [stage EXCEPT ![x] = "check"]
    /\ UNCHANGED <<storeVars, clientVars>>

\* A batch tool resolves the targets of all its updates before it applies any;
\* one that is not active ends the call.
Prepare(x) ==
    LET k == Key(x)
        id == Call[k].id
        reads == Call[k].op = "update" /\ receipts[k] = 0
        active == id \in DOMAIN events /\ events[id].status = "active"
    IN
    /\ stage[x] = "prepare"
    /\ IF reads /\ ~active
       THEN Told(x, "inactive", NoVersion) /\ Stop(x)
       ELSE /\ IF reads THEN seen' = [seen EXCEPT ![x][k] = Get(id)]
                        ELSE UNCHANGED seen
            /\ UNCHANGED <<task, answers>>
            /\ IF item[x] < Len(Items[task[x]])
               THEN item' = [item EXCEPT ![x] = @ + 1] /\ UNCHANGED stage
               ELSE /\ item' = [item EXCEPT ![x] = 1]
                    /\ stage' = [stage EXCEPT ![x] = "check"]
    /\ UNCHANGED <<storeVars, clientVars>>

\* SameSemanticEvent: the place is not compared.
SameSemanticEvent(c, d) == c.title = d.title /\ c.rule = d.rule

\* ApplyImport before the transaction of an item: a stored result, an invalid
\* proposal and a creation of what is there are not applied.
Check(x) ==
    LET k == Key(x)
        c == Normalized(Body(k, seen[x][k]))
        known == Call[k].op = "create" /\ \E i \in ActiveRows :
                    \/ Canonical(events[i].content) = Canonical(c)
                    \/ SameSemanticEvent(events[i].content, c)
    IN
    /\ stage[x] = "check"
    /\ IF receipts[k] # 0 THEN Answer(x, "replayed")
       ELSE IF ~Valid(c) THEN Answer(x, "invalid")
       ELSE IF known THEN Answer(x, "duplicate")
       ELSE Goto(x, "apply") /\ UNCHANGED <<seen, answers>>
    /\ UNCHANGED <<storeVars, clientVars>>

\* The ETag of an applied PUT is computed from the body, with its tags as they
\* came and with the status the client put there (the API's schema of an event
\* has none).
AnsweredVersions(k) ==
    IF Call[k].op = "update" /\ Call[k].origin = "hermes"
    THEN {[Snapshot(EventOf(Call[k].id, events'[Call[k].id]))
              EXCEPT !.status = s, !.content.raw = AtMidnight(Body(k, etag[k])).raw] :
             s \in {"active", "none"}}
    ELSE {NoVersion}

Apply(x) ==
    LET k == Key(x) IN
    /\ stage[x] = "apply"
    /\ \E out \in Outcomes :
          /\ ApplyAll(k, Proposal(x), Before(x), out)
          /\ \E v \in IF out = "applied" THEN AnsweredVersions(k) ELSE {NoVersion} :
                Told(x, out, v)
    /\ Advance(x)
    /\ UNCHANGED clientVars

CreateExternal(x) ==
    LET k == Key(x) IN
    /\ stage[x] = "create"
    /\ \E out \in Outcomes : Create(k, Input[k], out) /\ Answer(x, out)
    /\ UNCHANGED clientVars

Exclude(x) ==
    LET k == Key(x) IN
    /\ stage[x] = "exclude"
    /\ \E out \in Outcomes : /\ ExcludeOccurrence(k, etag[k], out)
                             /\ Answer(x, out)
    /\ UNCHANGED clientVars

\* A failed statement is taken for a stale client: by the handler of DELETE,
\* which answers 412 to whatever error Apply returns, and after a read that
\* left a part of the event out, whose version is then not the client's.
BlamesClient(x) ==
    /\ Origin(task[x]) = "hermes"
    /\ \/ stage[x] = "apply" /\ Call[Key(x)].op = "cancel" /\ task[x] \notin Batches
       \/ stage[x] = "read" /\ (Call[Key(x)].op # "exclude" \/ task[x] \in Batches)

\* The statement fails in the database and its transaction is rolled back: an
\* import ends there, a batch of Hermes goes on.  The other answers to a failure
\* (400, 404, 500) say nothing of a version.
Fails(x) ==
    /\ task[x] # Idle
    /\ IF Origin(task[x]) = "agent" THEN Stop(x) ELSE Advance(x)
    /\ \/ BlamesClient(x) /\ Told(x, "blamed", NoVersion)
       \/ ~(BlamesClient(x) /\ stage[x] = "apply") /\ UNCHANGED answers
    /\ UNCHANGED <<storeVars, clientVars>>

\* The process dies and is started again.
Crash ==
    /\ \E x \in Executors : task[x] # Idle
    /\ task' = [x \in Executors |-> Idle]
    /\ item' = [x \in Executors |-> 1]
    /\ stage' = [x \in Executors |-> "idle"]
    /\ seen' = [x \in Executors |-> [k \in Keys |-> NoVersion]]
    /\ UNCHANGED <<storeVars, clientVars, answers>>

Step(x) ==
    \/ Lookup(x)
    \/ Read(x)
    \/ Prepare(x)
    \/ Check(x)
    \/ Apply(x)
    \/ CreateExternal(x)
    \/ Exclude(x)
    \/ Fails(x)

Next ==
    \/ \E r \in Requests, k \in Keys : ClientReads(r, k)
    \/ \E x \in Executors, r \in Requests : Send(x, r)
    \/ \E x \in Executors : Step(x)
    \/ Crash

Spec == Init /\ [][Next]_requestVars

-----------------------------------------------------------------------------
(* Properties.                                                             *)

Versions == EventVersions \cup {NoVersion}

\* The store's tables, the clients' and the executions' state have their types.
TypeOK ==
    /\ StoreTypeOK
    /\ etag \in [Keys -> Versions]
    /\ sent \in SUBSET Requests
    /\ task \in [Executors -> Requests \cup {Idle}]
    /\ stage \in [Executors -> {"idle", "lookup", "read", "prepare", "check",
                                "apply", "create", "exclude"}]
    /\ seen \in [Executors -> [Keys -> Versions]]
    /\ answers \in [Keys -> SUBSET ((Outcomes \cup {"blamed"}) \X Versions)]
    /\ \A x \in Executors :
          IF task[x] = Idle THEN item[x] = 1 ELSE item[x] \in DOMAIN Items[task[x]]

\* The mutation that takes effect in this step.
TakesEffect(k) ==
    changes' # changes /\ changes'[Len(changes')].by = k

\* Whoever changes an event saw the version that is changed: Hermes before it
\* sent the request, the agent's tool before it wrote.  An administrator's and
\* Hermes' changes of one event never overwrite each other unseen.
AppliesToSeenVersion ==
    [][\A k \in Keys :
          TakesEffect(k) /\ Call[k].op \in {"update", "cancel"} =>
              LET now == Snapshot(Get(Call[k].id)) IN
              IF Call[k].origin = "hermes" THEN etag[k] = now
              ELSE \E x \in Executors : seen[x][k] # NoVersion /\ Snapshot(seen[x][k]) = now]_requestVars

Answers(k) == {a[1] : a \in answers[k]}
Refused == {"stale", "blamed", "missing", "inactive", "invalid", "taken"}
NewAnswers(k) == {a[1] : a \in answers'[k] \ answers[k]}

\* docs/architecture.md and api.go: a mutation that was applied is not refused
\* when it is asked for again after its answer was lost.
RetryNotRefused ==
    [][\A k \in Keys :
          (\E n \in DOMAIN changes : changes[n].by = k)
              => NewAnswers(k) \cap Refused = {}]_requestVars

\* A client whose version of an active event is the present one.
UpToDate(k) ==
    /\ Call[k].origin = "hermes" /\ Call[k].id \in ActiveRows
    /\ etag[k] = Snapshot(Get(Call[k].id))

\* docs/architecture.md: 412 is for stale clients.  As long as no statement
\* fails, a client that is up to date is not told that it is stale: neither the
\* comparison before the transaction nor the one in it is wrong, whatever the
\* other clients do between them.
RefusedOnlyIfStale ==
    [][\A k \in Keys : UpToDate(k) => "stale" \notin NewAnswers(k)]_requestVars

\* The same whatever happens to the statements.
NeverBlamed ==
    [][\A k \in Keys :
          UpToDate(k) => NewAnswers(k) \cap {"stale", "blamed"} = {}]_requestVars

\* docs/openapi.yaml: the version of an event is the token for If-Match, so the
\* one an update answers with is that of the event it leaves behind.
AnsweredVersionIsCurrent ==
    [][\A k \in Keys : \A a \in answers'[k] \ answers[k] :
          a[2] # NoVersion => a[2] = Snapshot(EventOf(Call[k].id, events'[Call[k].id]))]_requestVars

\* The comment of recurrenceIdentity: a generated limit is not part of a
\* series' identity, so the identity changes only when the user changes it.
IdentityFollowsUser ==
    [][\A k \in Keys :
          TakesEffect(k) /\ Call[k].op = "update"
          /\ Input[k].title = Keep /\ Input[k].place = Keep /\ Input[k].rule = Keep
              => events'[Call[k].id].key = events[Call[k].id].key]_requestVars

\* The requests use the store only through its transactions.
ImplementsStore == StoreSpec
=============================================================================
