----------------------------- MODULE MCReceipts -----------------------------
(***************************************************************************)
(* Small instances of Receipts for TLC.  The sets of updates, handlers and *)
(* tokens are sets of model values given in each .cfg; two of the updates  *)
(* are named, so that the routes below can tell them apart.                *)
(***************************************************************************)
EXTENDS Receipts, TLC

CONSTANTS u1, u2

AllAgent == [u \in Updates |-> "agent"]
AgentAndCommand == [u \in Updates |-> IF u = u1 THEN "agent" ELSE "command"]
AgentAndPlain == [u \in Updates |-> IF u = u1 THEN "agent" ELSE "ordinary"]

\* Tokens are only ever compared for equality.
TokenSymmetry == Permutations(Tokens)
TokenHandlerSymmetry == Permutations(Tokens) \cup Permutations(Handlers)
=============================================================================
