----------------------------- MODULE MCExchange -----------------------------
(* Instances of Exchange for TLC. *)
EXTENDS Exchange, TLC

CONSTANTS ui, worker, app, scene, preset

\* Two tool calls of one MCP server at once, and another client, which listens.
TwoClients == (ui :> "server") @@ (worker :> "server") @@ (app :> "app")
TwoAndOne == ("server" :> 2) @@ ("app" :> 1)

\* The ways that hold the lock, and beside them, on the same client, those that
\* go past it.
Ways ==
  (ui :> {"request"}) @@ (worker :> {"match", "first", "stream", "drain", "load"})
  @@ (app :> {"stream"})

CommandSymmetry == Permutations({scene, preset})
=============================================================================
