---------------------------- MODULE MCAgentReply ----------------------------
(***************************************************************************)
(* Small instances of AgentReply for TLC: histories with a parent at each  *)
(* protected or unprotected place, and turns with an unknown tool, bad     *)
(* arguments, a repeated call and too many calls.                          *)
(***************************************************************************)
EXTENDS AgentReply

Ask(tool, args) == [tool |-> tool, args |-> args]
query == Ask("query", "x")
change == Ask("change", "x")

MCTurns == {<<change, change>>, <<Ask("other", "x"), query>>,
            <<Ask("query", "bad"), change>>, <<query, query, query>>}

MCHistories == {[length |-> 1, parent |-> 0], [length |-> 5, parent |-> 2]}
MCInputSize == [i \in 1 .. 5 |-> 1]
=============================================================================
