--------------------------- MODULE MCShmTransport ---------------------------
(* Instances of ShmTransport small enough for TLC.                          *)
EXTENDS ShmTransport

CONSTANTS b1, b2, c1, c2, c3, s1, s2

\* Two threads share the first binding.
TwoShare == [c \in Clients |-> IF c = c3 THEN b2 ELSE b1]
\* The first one calls twice.
FirstTwice == [c \in Clients |-> IF c = c1 THEN 2 ELSE 1]
=============================================================================
