------------------------------ MODULE Calendar ------------------------------
(***************************************************************************)
(* What the schedule store promises, without rows, keys, receipts or logs: *)
(* a calendar of live events, no two with the same identity, changed only  *)
(* by mutations that take effect at most once each, and one event at a     *)
(* time, except that an event takes over the identity of another by        *)
(* replacing it.                                                           *)
(***************************************************************************)
CONSTANT Keys

VARIABLES live, effective

calendarVars == <<live, effective>>

Init == live = <<>> /\ effective = {}

\* Mutation k takes effect now.
Once(k) == k \notin effective /\ effective' = effective \cup {k}

\* id is added, and nothing else in the calendar is what it is.
Add(k, id) ==
    /\ Once(k)
    /\ id \notin DOMAIN live
    /\ DOMAIN live' = DOMAIN live \cup {id}
    /\ \A j \in DOMAIN live : /\ live'[j] = live[j]
                             /\ live[j].identity # live'[id].identity
    /\ live'[id].excluded = {}

\* id gets new content; an event that is the same event then goes.
Change(k, id) ==
    /\ Once(k)
    /\ id \in DOMAIN live /\ id \in DOMAIN live'
    /\ live'[id].excluded = live[id].excluded
    /\ DOMAIN live' = {j \in DOMAIN live :
                          j = id \/ live[j].identity # live'[id].identity}
    /\ \A j \in DOMAIN live' \ {id} : live'[j] = live[j]

Withdraw(k, id) ==
    /\ Once(k)
    /\ id \in DOMAIN live
    /\ live' = [j \in DOMAIN live \ {id} |-> live[j]]

\* One more occurrence of id is left out.
Exclude(k, id, date) ==
    /\ Once(k)
    /\ id \in DOMAIN live
    /\ date \notin live[id].excluded
    /\ live' = [live EXCEPT ![id].excluded = @ \cup {date}]

Next ==
    \E k \in Keys : \E id \in DOMAIN live \cup DOMAIN live' :
        \/ Add(k, id)
        \/ Change(k, id)
        \/ Withdraw(k, id)
        \/ /\ DOMAIN live' = DOMAIN live
           /\ \E date \in live'[id].excluded : Exclude(k, id, date)

Spec == Init /\ [][Next]_calendarVars
=============================================================================
