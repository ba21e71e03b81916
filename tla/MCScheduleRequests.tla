------------------------- MODULE MCScheduleRequests -------------------------
(***************************************************************************)
(* Small instances of ScheduleRequests for TLC: scenarios of at most four  *)
(* requests.  A key is a pair of a request and the number of an item.      *)
(***************************************************************************)
EXTENDS ScheduleRequests, TLC

CONSTANTS t1, t2, bad, p1, p2, n1, n2, g1, d1, d2,
          ra, rb, rc, rd

Ask(origin, op, id) == [origin |-> origin, op |-> op, id |-> id, date |-> d1]
On(date, call) == [call EXCEPT !.date = date]

Event1(title, rule) == [title |-> title, place |-> p1, rule |-> rule, note |-> n1,
                        tags |-> {}, raw |-> {}]
NoChange == [title |-> Keep, place |-> Keep, rule |-> Keep, note |-> Keep,
             tags |-> Keep, raw |-> {}]
Noted(n) == [NoChange EXCEPT !.note = n]
Renamed(title) == [NoChange EXCEPT !.title = title]

\* A scenario gives every key its call and its input; what is left of a
\* scenario of at most four requests follows from it.
K(r, i) == <<r, i>>

ItemsOf(scenario) ==
    [r \in Requests |-> [i \in 1 .. Cardinality({k \in DOMAIN scenario : k[1] = r})
                            |-> <<r, i>>]]
CallsOf(scenario) == [k \in DOMAIN scenario |-> scenario[k].call]
InputsOf(scenario) == [k \in DOMAIN scenario |-> scenario[k].input]
Item(call, input) == [call |-> call, input |-> input]

\* The agent creates an event of a day with a tag, both as the user wrote them, which
\* then the agent and Hermes change and cancel at the same time.
Contest ==
    K(ra, 1) :> Item(Ask("agent", "create", 0),
                     [Event1(t1, "single") EXCEPT !.tags = {g1}, !.raw = {"hour", "tags"}]) @@
    K(rb, 1) :> Item(Ask("hermes", "update", 1), Noted(n2)) @@
    K(rc, 1) :> Item(Ask("agent", "update", 1), [Renamed(t2) EXCEPT !.raw = {"hour"}]) @@
    K(rd, 1) :> Item(Ask("hermes", "cancel", 1), NoChange)
ContestKeys == DOMAIN Contest
ContestItems == ItemsOf(Contest)
ContestCalls == CallsOf(Contest)
ContestInputs == InputsOf(Contest)

\* An import of the agent with a bad item, a batch of Hermes that creates the
\* same event in another place and changes the first, an exclusion from the
\* first, and an import that moves the first onto the second, which it changed
\* before.
Batch ==
    K(ra, 1) :> Item(Ask("agent", "create", 0), Event1(t1, "open")) @@
    K(ra, 2) :> Item(Ask("agent", "create", 0), Event1(bad, "open")) @@
    K(rb, 1) :> Item(Ask("hermes", "create", 0),
                     [Event1(t1, "open") EXCEPT !.place = p2]) @@
    K(rb, 2) :> Item(Ask("hermes", "update", 1), Noted(n2)) @@
    K(rc, 1) :> Item(Ask("agent", "update", 2), Noted(n2)) @@
    K(rc, 2) :> Item(Ask("agent", "update", 1), [NoChange EXCEPT !.place = p2]) @@
    K(rd, 1) :> Item(Ask("hermes", "exclude", 1), NoChange)
BatchKeys == DOMAIN Batch
BatchItems == ItemsOf(Batch)
BatchCalls == CallsOf(Batch)
BatchInputs == InputsOf(Batch)

\* One series, and a batch of Hermes that excludes a date of it.
BatchExclusion ==
    K(ra, 1) :> Item(Ask("agent", "create", 0), Event1(t1, "open")) @@
    K(rb, 1) :> Item(Ask("hermes", "exclude", 1), NoChange) @@
    K(rb, 2) :> Item(On(d2, Ask("hermes", "exclude", 1)), NoChange)
BatchExclusionKeys == DOMAIN BatchExclusion
BatchExclusionItems == ItemsOf(BatchExclusion)
BatchExclusionCalls == CallsOf(BatchExclusion)
BatchExclusionInputs == InputsOf(BatchExclusion)

\* A series with a tag, of which Hermes excludes a date.
Tagged ==
    K(ra, 1) :> Item(Ask("agent", "create", 0),
                     [Event1(t1, "open") EXCEPT !.tags = {g1}]) @@
    K(rb, 1) :> Item(Ask("hermes", "exclude", 1), NoChange)
TaggedKeys == DOMAIN Tagged
TaggedItems == ItemsOf(Tagged)
TaggedCalls == CallsOf(Tagged)
TaggedInputs == InputsOf(Tagged)

\* Executors are interchangeable.
ExecutorSymmetry == Permutations(Executors)
=============================================================================
