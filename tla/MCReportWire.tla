---------------------------- MODULE MCReportWire ----------------------------
(* Instances of ReportWire for TLC. *)
EXTENDS ReportWire, TLC

CONSTANTS caller, player, heartbeat

\* One process: the caller's thread, the player's and the heartbeat's share a
\* QuadCortex and its _send_lock.
OneProcess == [t \in {caller, player, heartbeat} |-> "bench"]

\* Lengths up to three reports of two units, exact and short last chunks; a
\* KeepAlive always fits one report.
ShortAndLong == (caller :> 1 .. 5) @@ (player :> 2 .. 4) @@ (heartbeat :> {1})
=============================================================================
