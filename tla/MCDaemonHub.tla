---------------------------- MODULE MCDaemonHub -----------------------------
(* An instance of DaemonHub for TLC. *)
EXTENDS DaemonHub

\* The first client makes calls enough to time out on a read and take its late
\* reply during a later one; the second only greets.
Calls3And1 == (0 :> 3) @@ (1 :> 1)
=============================================================================
