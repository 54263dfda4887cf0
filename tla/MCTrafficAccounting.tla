------------------------ MODULE MCTrafficAccounting ------------------------
(* Instances of TrafficAccounting for TLC. *)
EXTENDS TrafficAccounting
CONSTANTS c1, service, once
=============================================================================
