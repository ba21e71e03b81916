--------------------------- MODULE UpdateOwnership ---------------------------
(***************************************************************************)
(* What the receipts promise for each accepted update, without receipts,   *)
(* tokens, leases or time (docs/architecture.md, "Update Processing        *)
(* Guarantees"): at most one worker at a time works on an update, only the *)
(* worker it belongs to answers it, an update is settled only when nobody  *)
(* works on it and the answer it needs was given, and a settled update is  *)
(* never taken again.  Answers may be repeated: the system is at-least-    *)
(* once.  A crash takes every update away from its owner.                  *)
(***************************************************************************)
CONSTANTS Updates, Workers, Nobody,
          Needs            \* the updates that must be answered

VARIABLES owner, settled, answered

ownershipVars == <<owner, settled, answered>>

Init ==
    /\ owner = [u \in Updates |-> Nobody]
    /\ settled = {}
    /\ answered = {}

Take(w, u) ==
    /\ owner[u] = Nobody
    /\ u \notin settled
    /\ owner' = [owner EXCEPT ![u] = w]
    /\ UNCHANGED <<settled, answered>>

\* The owner stops working, with or without having answered.
Stop(u) ==
    /\ owner[u] # Nobody
    /\ owner' = [owner EXCEPT ![u] = Nobody]
    /\ answered' \in {answered, answered \cup {u}}
    /\ UNCHANGED settled

Settle(u) ==
    /\ owner[u] = Nobody
    /\ u \in Needs => u \in answered
    /\ settled' = settled \cup {u}
    /\ UNCHANGED <<owner, answered>>

Crash ==
    /\ owner' = [u \in Updates |-> Nobody]
    /\ UNCHANGED <<settled, answered>>

Next ==
    \/ \E u \in Updates : \/ \E w \in Workers : Take(w, u)
                          \/ Stop(u)
                          \/ Settle(u)
    \/ Crash

Spec == Init /\ [][Next]_ownershipVars
=============================================================================
