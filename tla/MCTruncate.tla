----------------------------- MODULE MCTruncate -----------------------------
(* Small instances of Truncate for TLC. The stems are those of the prefix  *)
(* logs in process 7 at 8, and of the prefix logs-7 in process 8 at 1: a   *)
(* name of the first is a name of the second.                              *)
EXTENDS Truncate

CONSTANTS c1, c2, c3, none

Triple == {c1, c2, c3}
Overlapping == {"logs-7-8", "logs-7-8-1"}
Files == Overlapping \cup {"logs-7-8-1-1"}
Suffixed == [s \in Overlapping |-> [a \in 0 .. 1 |->
  IF a = 0 THEN s ELSE IF s = "logs-7-8" THEN "logs-7-8-1" ELSE "logs-7-8-1-1"]]

Asked(total, max, prefix) == [total |-> total, max |-> max, prefix |-> prefix]
Boundaries ==
  {Asked(2, 1, TRUE), Asked(1, 1, TRUE), Asked(0, 0, TRUE), Asked(2, 1, FALSE)}
=============================================================================
