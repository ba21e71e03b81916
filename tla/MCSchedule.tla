----------------------------- MODULE MCSchedule -----------------------------
(***************************************************************************)
(* Small instances of Schedule for TLC: which mutation each key asks for.  *)
(***************************************************************************)
EXTENDS Schedule, TLC

CONSTANTS ka, kb, kc, kd, ke, kf, kg, d1, d2

Ask(origin, op, id, date) == [origin |-> origin, op |-> op, id |-> id, date |-> date]

\* Two creations, an update of the second event (which may turn it into the
\* first), a cancellation of the first, and exclusions from the first: of one
\* date by the agent and by Hermes, and of a date that the series does not have.
StoreCalls ==
    [k \in Keys |-> CASE k = ka -> Ask("agent", "create", 0, d1)
                      [] k = kb -> Ask("hermes", "create", 0, d1)
                      [] k = kc -> Ask("hermes", "update", 2, d1)
                      [] k = kd -> Ask("agent", "cancel", 1, d1)
                      [] k = ke -> Ask("agent", "exclude", 1, d1)
                      [] k = kf -> Ask("hermes", "exclude", 1, d1)
                      [] k = kg -> Ask("agent", "exclude", 1, d2)]
=============================================================================
