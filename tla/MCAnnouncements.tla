--------------------------- MODULE MCAnnouncements ---------------------------
(***************************************************************************)
(* Sizes for TLC: every line takes one unit, or the second one takes more. *)
(***************************************************************************)
EXTENDS Announcements

EvenSizes == [n \in Changes |-> 1]
LongSecond == [n \in Changes |-> IF n = 2 THEN 2 ELSE 1]
=============================================================================
