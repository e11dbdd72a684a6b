-------------------------- MODULE MCRealtimeQueue ---------------------------
(* The instance of RealtimeQueue that TLC checks: two sites, a queue and a *)
(* batch small enough to fill.                                             *)
EXTENDS RealtimeQueue

CONSTANTS s1, s2
MCSites == {s1, s2}
=============================================================================
