---------------------------- MODULE MCSRCThreads ----------------------------
(* Instances of SRCThreads small enough for TLC.                            *)
EXTENDS SRCThreads

CONSTANTS a, b, d
=============================================================================
