--------------------------- MODULE MCSessionLock ----------------------------
(* Instances of SessionLock for TLC: daemons and MCP servers by name. *)
EXTENDS SessionLock
CONSTANTS d1, d2, m1
=============================================================================
