--------------------------- MODULE MCEventCounts ---------------------------
(* Instances of EventCounts small enough for TLC.                          *)
EXTENDS EventCounts

CONSTANTS a, b

\* How far above the count the threads wait.
NextOnly == [k \in Kinds |-> IF k = "local" THEN 3 ELSE 1]
Further  == [k \in Kinds |-> 2]
=============================================================================
