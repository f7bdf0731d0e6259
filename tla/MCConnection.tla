---------------------------- MODULE MCConnection ----------------------------
(* Two threads of a server, one of them with a call of its own only, on both *)
(* platforms, beside a Cortex Control that is started and quit.              *)
EXTENDS Connection, TLC

CONSTANTS w1, w2

MCPlatforms == {"darwin", "win32"}

ConnectTo(m, q) == [tool |-> "connect", mode |-> m, quit |-> q]
MCCalls == { ConnectTo("auto", FALSE), ConnectTo("bridge", FALSE), ConnectTo("direct", FALSE),
             ConnectTo("direct", TRUE), [tool |-> "disconnect"], [tool |-> "any"] }
MCMaxCalls == w1 :> 3 @@ w2 :> 1
=============================================================================
