------------------------------ MODULE Connection ------------------------------
(***************************************************************************)
(* How one MCP server comes to a session with the unit and leaves it again *)
(* (server.py: connect, disconnect, _conn; transport.py: open, close), next*)
(* to a Cortex Control that a user starts and quits as he likes.           *)
(*                                                                         *)
(* Bridge mode rides the session of an instrumented Cortex Control over    *)
(* two pipes (bridge.py); shared mode has a handle of its own next to the  *)
(* stock one; direct mode has the unit to itself (iohid.py, winhid.py).    *)
(***************************************************************************)
EXTENDS Naturals

CONSTANTS Workers,   \* threads of the server
          Platforms, \* of "darwin", "win32"
          Calls,     \* what a tool may be called with
          MaxCalls, MaxApp,  \* bounds: calls of each thread, starts of the app
          None

VARIABLES
  platform,
  app,      \* Cortex Control: down, stock, instrumented
  session,  \* whose handshake the unit heard last: nobody's, app's, ours
  share, forced,  \* QC_SHARE = 1, QC_BRIDGE = 0
  qc,       \* _qc, or None
  new,      \* the object being opened, under _lock
  holder,   \* who has _lock
  pc, call, made, reply,
  calm,     \* history: no app came or went since the lock was taken
  alone,    \* history: alone[w]: no other call went on beside this one of w
  kicked,   \* history: the app lost its session to our handshake
  left,     \* history: the goodbye to the unit could not be sent
  started   \* history: starts of Cortex Control

env == <<share, forced>>
threads == <<pc, call, made, reply, alone>>
vars == <<platform, app, session, env, qc, new, holder, threads, calm, kicked, left, started>>

Modes == {"bridge", "shared", "direct"}
Objects == [mode : Modes, opened : BOOLEAN, beats : BOOLEAN, riding : BOOLEAN, firmware : BOOLEAN]

ASSUME NoneAssumption == None \notin Workers \cup Modes \cup Objects

Fresh(m) == [mode |-> m, opened |-> FALSE, beats |-> FALSE, riding |-> FALSE, firmware |-> FALSE]

\* The heartbeats that keep a session of the unit alive.
Beating == {"app" : x \in {app} \ {"down"}} \cup {"ours" : o \in {x \in {qc, new} : x # None /\ x.beats}}

Init ==
  /\ platform \in Platforms
  /\ app \in (IF platform = "win32" THEN {"down", "stock"} ELSE {"down", "stock", "instrumented"})
  /\ session = IF app = "down" THEN "nobody's" ELSE "app"
  /\ share = FALSE /\ forced = FALSE
  /\ qc = None /\ new = None /\ holder = None
  /\ pc = [w \in Workers |-> "idle"] /\ call = [w \in Workers |-> None]
  /\ made = [w \in Workers |-> 0] /\ reply = [w \in Workers |-> None]
  /\ alone = [w \in Workers |-> TRUE]
  /\ calm = TRUE /\ kicked = FALSE /\ left = FALSE /\ started = 0

-----------------------------------------------------------------------------
(* Outside: the app and the unit *)

Exclusive(o) == o # None /\ o.opened /\ o.mode = "direct"
Taken == Exclusive(qc) \/ Exclusive(new)

Starts(kind) ==
  /\ app = "down" /\ started < MaxApp
  /\ app' = kind /\ started' = started + 1
  /\ session' = IF Taken THEN session ELSE "app"
  /\ calm' = FALSE
  /\ UNCHANGED <<platform, env, qc, new, holder, threads, kicked, left>>

AppStarts == Starts("stock") \/ (platform = "darwin" /\ Starts("instrumented"))

AppQuits ==
  /\ app # "down" /\ app' = "down"
  /\ calm' = FALSE
  /\ UNCHANGED <<platform, session, env, qc, new, holder, threads, kicked, left, started>>

\* A session lasts some ten seconds beyond the last heartbeat.
Expire ==
  /\ session # "nobody's" /\ session \notin Beating
  /\ session' = "nobody's"
  /\ UNCHANGED <<platform, app, env, qc, new, holder, threads, calm, kicked, left, started>>

-----------------------------------------------------------------------------
(* The tools *)

Begin(w) ==
  /\ pc[w] = "idle" /\ made[w] < MaxCalls[w]
  /\ \E c \in Calls :
       /\ call' = [call EXCEPT ![w] = c]
       /\ pc' = [pc EXCEPT ![w] = IF c.tool = "connect" THEN "connect"
                                  ELSE IF c.tool = "disconnect" THEN "lock to leave" ELSE "lock"]
  /\ made' = [made EXCEPT ![w] = @ + 1]
  /\ reply' = [reply EXCEPT ![w] = None]
  /\ alone' = [v \in Workers |-> IF v = w THEN \A u \in Workers : pc[u] = "idle" ELSE FALSE]
  /\ UNCHANGED <<platform, app, session, env, qc, new, holder, calm, kicked, left, started>>

Outside == <<platform, app, session, kicked, left, started>>

Goto(w, where) == pc' = [pc EXCEPT ![w] = where] /\ UNCHANGED <<call, made, reply, alone>>
Say(w, what) == /\ reply' = [reply EXCEPT ![w] = what]
                /\ pc' = [pc EXCEPT ![w] = "idle"] /\ UNCHANGED <<call, made, alone>>

\* The FIFOs outlive the app; on Windows there are no pipes, and the app will do.
BridgeRunning == app = "instrumented" \/ (platform = "win32" /\ app # "down")
Endpoints == platform = "darwin"

Mode(c) == IF c.mode = "auto" /\ BridgeRunning THEN "bridge" ELSE c.mode

\* connect, up to _conn; looks at _qc and sets the environment without a lock.
Connect(w) ==
  /\ pc[w] = "connect"
  /\ LET m == Mode(call[w])
     IN \/ qc # None /\ Say(w, "already") /\ UNCHANGED env
        \/ qc = None /\ m = "auto" /\ Say(w, "which?") /\ UNCHANGED env
        \/ qc = None /\ m = "bridge" /\ forced' = FALSE /\ UNCHANGED share
           /\ Goto(w, IF BridgeRunning THEN "shared?" ELSE "launch")
        \/ qc = None /\ m = "direct" /\ app # "down" /\ UNCHANGED env
           /\ IF call[w].quit THEN Goto(w, "quit") ELSE Say(w, "error")
        \/ qc = None /\ m = "direct" /\ app = "down" /\ Goto(w, "force") /\ UNCHANGED env
  /\ UNCHANGED <<Outside, qc, new, holder, calm>>

\* _launch_bridge: starts the app and waits for it, but not for ever; another
\* one that runs is not looked for.
Launch(w) ==
  /\ pc[w] = "launch"
  /\ IF app = "down" /\ started < MaxApp
     THEN /\ app' = IF platform = "win32" THEN "stock" ELSE "instrumented"
          /\ session' = IF Taken THEN session ELSE "app"
          /\ started' = started + 1 /\ calm' = FALSE
     ELSE UNCHANGED <<app, session, started, calm>>
  /\ Goto(w, "await bridge")
  /\ UNCHANGED <<platform, env, qc, new, holder, kicked, left>>

AwaitBridge(w) ==
  /\ pc[w] = "await bridge"
  /\ (BridgeRunning /\ Goto(w, "shared?")) \/ Say(w, "error")
  /\ UNCHANGED <<Outside, env, qc, new, holder, calm>>

\* The mode is for _conn to read in the environment.
Share(w) ==
  /\ pc[w] = "shared?"
  /\ share' = (share \/ platform = "win32") /\ UNCHANGED forced
  /\ Goto(w, "lock")
  /\ UNCHANGED <<Outside, qc, new, holder, calm>>

\* _quit_cortex asks, and waits three seconds.
QuitApp(w) ==
  /\ pc[w] = "quit"
  /\ app' \in {app, "down"} /\ calm' = FALSE
  /\ Goto(w, "force")
  /\ UNCHANGED <<platform, session, env, qc, new, holder, kicked, left, started>>

ForceOnly(w) ==  \* mutant: QC_SHARE stays from the last time
  /\ pc[w] = "force"
  /\ forced' = TRUE /\ UNCHANGED share
  /\ Goto(w, "lock")
  /\ UNCHANGED <<Outside, qc, new, holder, calm>>

ForceDirect(w) ==
  /\ pc[w] = "force"
  /\ forced' = TRUE /\ share' = FALSE
  /\ Goto(w, "lock")
  /\ UNCHANGED <<Outside, qc, new, holder, calm>>

-----------------------------------------------------------------------------
(* _conn and QuadCortex.open *)

Lock(w) ==
  /\ pc[w] = "lock" /\ holder = None
  /\ IF qc # None
     THEN Goto(w, "confirm") /\ UNCHANGED <<new, holder, calm>>
     ELSE /\ holder' = w /\ calm' = TRUE
          /\ new' = Fresh(IF share THEN "shared" ELSE IF Endpoints /\ ~forced THEN "bridge"
                          ELSE "direct")
          /\ Goto(w, "open")
  /\ UNCHANGED <<Outside, env, qc>>

CanOpen(o) == CASE o.mode = "bridge" -> app = "instrumented"
                [] o.mode = "shared" -> TRUE
                [] o.mode = "direct" -> app = "down"

Unlock == holder' = None /\ new' = None

\* What cannot be bridged or shared is opened directly, or not at all.
OpenIo(w) ==
  /\ pc[w] = "open"
  /\ \/ /\ CanOpen(new)
        /\ new' = [new EXCEPT !.opened = TRUE]
        /\ Goto(w, CASE new.mode = "bridge" -> "version" [] new.mode = "shared" -> "listen"
                     [] new.mode = "direct" -> "beat")
        /\ UNCHANGED holder
     \/ /\ new.mode # "direct" /\ new' = Fresh("direct")
        /\ UNCHANGED <<threads, holder>>
     \/ new.mode = "direct" /\ Unlock /\ Say(w, "error")
  /\ UNCHANGED <<Outside, env, qc, calm>>

ListenDeaf(w) ==  \* mutant: a handshake of its own in any case
  /\ pc[w] = "listen"
  /\ Goto(w, "beat") /\ UNCHANGED <<new, Outside, env, qc, holder, calm>>

\* _session_live: the unit talks for as long as it has a session.
Listen(w) ==
  /\ pc[w] = "listen"
  /\ IF session # "nobody's"
     THEN new' = [new EXCEPT !.riding = TRUE] /\ Goto(w, "version")
     ELSE Goto(w, "beat") /\ UNCHANGED new
  /\ UNCHANGED <<Outside, env, qc, holder, calm>>

Beat(w) ==
  /\ pc[w] = "beat"
  /\ new' = [new EXCEPT !.beats = TRUE]
  /\ Goto(w, "handshake")
  /\ UNCHANGED <<Outside, env, qc, holder, calm>>

Handshake(w) ==
  /\ pc[w] = "handshake"
  /\ session' = "ours"
  /\ kicked' = (kicked \/ (session = "app" /\ app # "down" /\ calm))
  /\ Goto(w, "version")
  /\ UNCHANGED <<platform, app, env, qc, new, holder, calm, left, started>>

VersionAgain(w) ==  \* mutant: rides on, with a heartbeat of its own
  /\ pc[w] = "version"
  /\ \/ /\ session # "nobody's" /\ new' = [new EXCEPT !.firmware = TRUE]
        /\ Goto(w, "claim") /\ UNCHANGED calm
     \/ new.riding /\ Goto(w, "beat") /\ calm' = FALSE /\ UNCHANGED new
     \/ /\ ~new.riding /\ Goto(w, "claim") /\ UNCHANGED <<new, calm>>
  /\ UNCHANGED <<Outside, env, qc, holder>>

\* detect_version: three reads, which only a session answers; whoever rides one
\* that died has to make his own.  An app that lives but does not answer in
\* time cannot be told from one that died.
Version(w) ==
  /\ pc[w] = "version"
  /\ \/ /\ session # "nobody's" /\ new' = [new EXCEPT !.firmware = TRUE]
        /\ Goto(w, "claim") /\ UNCHANGED calm
     \/ /\ new.riding /\ new' = [new EXCEPT !.riding = FALSE]
        /\ Goto(w, "beat") /\ calm' = FALSE
     \/ /\ ~new.riding /\ Goto(w, "claim") /\ UNCHANGED <<new, calm>>
  /\ UNCHANGED <<Outside, env, qc, holder>>

Claim(w) ==
  /\ pc[w] = "claim"
  /\ qc' = new /\ Unlock
  /\ Goto(w, "confirm")
  /\ UNCHANGED <<Outside, env, calm>>

\* One read by the tool, which may meet an object closed meanwhile.
Confirm(w) ==
  /\ pc[w] = "confirm"
  /\ \/ qc # None /\ session # "nobody's" /\ Say(w, qc.mode)
     \/ Say(w, "error")
  /\ UNCHANGED <<Outside, env, qc, new, holder, calm>>

-----------------------------------------------------------------------------
(* disconnect and QuadCortex.close *)

LockToLeave(w) ==
  /\ pc[w] = "lock to leave" /\ holder = None
  /\ IF qc = None THEN Say(w, "done") /\ UNCHANGED holder
     ELSE holder' = w /\ Goto(w, "silence")
  /\ UNCHANGED <<Outside, env, qc, new, calm>>

Silence(w) ==
  /\ pc[w] = "silence"
  /\ qc' = [qc EXCEPT !.beats = FALSE]
  /\ Goto(w, "goodbye")
  /\ UNCHANGED <<Outside, env, new, holder, calm>>

OwnsSession == qc.mode # "bridge" /\ ~qc.riding

NoGoodbye(w) ==  \* mutant: nobody tells the unit
  /\ pc[w] = "goodbye"
  /\ Goto(w, "close")
  /\ UNCHANGED <<Outside, env, qc, new, holder, calm>>

Goodbye(w) ==
  /\ pc[w] = "goodbye"
  /\ IF OwnsSession
     THEN \/ session' = "nobody's" /\ UNCHANGED left
          \/ left' = TRUE /\ UNCHANGED session
     ELSE UNCHANGED <<session, left>>
  /\ Goto(w, "close")
  /\ UNCHANGED <<platform, app, env, qc, new, holder, calm, kicked, started>>

CloseIo(w) ==
  /\ pc[w] = "close"
  /\ qc' = None /\ holder' = None
  /\ Say(w, "done")
  /\ UNCHANGED <<Outside, env, new, calm>>

Tool(w) == \/ Connect(w) \/ Launch(w) \/ AwaitBridge(w) \/ Share(w) \/ QuitApp(w) \/ ForceDirect(w)
           \/ Lock(w) \/ OpenIo(w) \/ Listen(w) \/ Beat(w) \/ Handshake(w) \/ Version(w)
           \/ Claim(w) \/ Confirm(w) \/ LockToLeave(w) \/ Silence(w) \/ Goodbye(w) \/ CloseIo(w)

Next == AppStarts \/ AppQuits \/ Expire \/ \E w \in Workers : Begin(w) \/ Tool(w)

Spec == Init /\ [][Next]_vars

-----------------------------------------------------------------------------
TypeOK ==
  /\ app \in {"down", "stock", "instrumented"} /\ session \in {"nobody's", "app", "ours"}
  /\ {qc, new} \subseteq Objects \cup {None}
  /\ holder \in Workers \cup {None}
  /\ new # None => holder # None
  /\ qc # None => qc.opened /\ ~(qc.riding /\ qc.beats)

\* A Cortex Control that has the session of the unit keeps it: only one that
\* came while the server connected, or that did not answer it, is thrown off
\* by a handshake of the server's own (transport.py, open).
NeverTakesOver == ~kicked

\* Out of a connection, the server leaves no session behind that the next one
\* would take for somebody else's and ride (transport.py, close).
LeavesNothingBehind == qc = None /\ new = None /\ ~left => session # "ours"

\* Who asks for direct mode, and is told that it is connected, has the unit to
\* itself, whatever modes were asked for before.
DirectIsDirect ==
  \A w \in Workers :
    pc[w] = "idle" /\ alone[w] /\ reply[w] \in Modes /\ call[w].tool = "connect"
      => (Mode(call[w]) = "direct" => reply[w] = "direct")
=============================================================================
