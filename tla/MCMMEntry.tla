------------------------------ MODULE MCMMEntry ------------------------------
(* Instances of MMEntry small enough for TLC.                               *)
EXTENDS MMEntry

CONSTANTS main, x, w1, w2

AtStart == <<main, w1, w2>>
MainNests == [t \in Threads |-> IF t = main THEN 2 ELSE 1]
==============================================================================
