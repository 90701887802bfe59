--------------------------- MODULE MCCalendarSync ---------------------------
(***************************************************************************)
(* CalendarSync for model checking: the consumer loops are alike.          *)
(***************************************************************************)
EXTENDS CalendarSync, TLC

Symmetry == Permutations(Workers) \cup Permutations(Times)

===============================================================================
