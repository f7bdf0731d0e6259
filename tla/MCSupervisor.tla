---------------------------- MODULE MCSupervisor ----------------------------
(* Instances of Supervisor for TLC: processes and calls by name. *)
EXTENDS Supervisor
CONSTANTS p1, p2, hand, b1, b2
=============================================================================
