----------------------------- MODULE Supervisor -----------------------------
(***************************************************************************)
(* Patchbay's Daemon class (main/daemon.ts) and the daemon processes it    *)
(* starts, adopts and stops, next to daemons started by hand, on macOS.    *)
(*                                                                         *)
(* What ties them together is names, not handles: one socket path, which   *)
(* whoever binds it last answers at and anybody may unlink, and one        *)
(* session record, which names a pid.  start() and stop() are async: what  *)
(* they wait for happens in other steps, and what they found out may be    *)
(* old when they act on it.  Every look at the record, write, bind and     *)
(* unlink of a daemon is a step of its own, and nothing waits for anything *)
(* the code does not wait for.                                             *)
(***************************************************************************)
EXTENDS Integers

CONSTANTS
  Ours,       \* processes Patchbay may spawn; bound: how many it ever does
  Hand,       \* daemons started in a terminal
  Rude,       \* those among them started with --takeover
  Starts,     \* bound: calls of start() in flight
  MaxRounds,  \* how often begin() asks the endpoint (150 in the code)
  None

Procs == Ours \cup Hand

ASSUME SupervisorAssumption ==
  /\ Ours \cap Hand = {} /\ None \notin Procs
  /\ Rude \subseteq Hand /\ MaxRounds \in Nat \ {0}

VARIABLES
  child,     \* this.child
  external,  \* this.external: running, adopted and not spawned
  status,    \* this.state
  live,      \* whether this.liveSocket is set
  at,        \* per call of start(): where its begin() is
  saw,       \* per call: whether its last connect was accepted
  rounds,    \* per call: how often it has asked the endpoint
  winding,   \* a stop() of an adopted daemon has not returned
  doomed,    \* processes with a SIGKILL timer running
  proc,      \* per process: how far it has come
  told,      \* processes that were sent SIGTERM and are not gone
  endpoint,  \* who answers at the socket path: None when it is unlinked, and
             \* when whoever bound it last listens no more
  record,    \* the pid in session.json
  left       \* history: how Patchbay let go of each child, if it did

patchbay == <<child, external, status, live, winding, doomed, left>>
begins   == <<at, saw, rounds>>
system   == <<proc, told, endpoint, record>>
vars     == <<patchbay, begins, system>>

\* Booting looks for an owner, opening opens the device; acquire() then looks
\* (claiming), writes (settling is next) and looks again; binding has the record
\* and its SIGTERM handler.  After SIGTERM: release() looks (dropping is next)
\* and unlinks, close, close again, and a second release().
Living == {"booting", "opening", "claiming", "settling", "binding", "serving",
           "dropping", "released", "closed", "closed twice", "dropping again"}
Alive(p) == proc[p] \in Living

\* The kernel accepts a connect as long as the listening socket is open.
EndpointUp == endpoint # None
Owner == IF record # None /\ Alive(record) THEN record ELSE None

Init ==
  /\ child = None /\ external = FALSE /\ status = "stopped" /\ live = FALSE
  /\ winding = FALSE /\ doomed = {}
  /\ at = [b \in Starts |-> "idle"]
  /\ saw = [b \in Starts |-> FALSE]
  /\ rounds = [b \in Starts |-> 0]
  /\ proc = [p \in Procs |-> "unborn"] /\ told = {}
  /\ endpoint = None /\ record = None
  /\ left = [p \in Ours |-> "no"]

-----------------------------------------------------------------------------
(* Daemon processes: daemon.serve *)

To(p, from, to) == proc[p] = from /\ proc' = [proc EXCEPT ![p] = to]

HandStart(p) ==
  /\ p \in Hand
  /\ To(p, "unborn", "booting")
  /\ UNCHANGED <<patchbay, begins, told, endpoint, record>>

\* Its sockets close, its name in the record stays.
Ends(p) ==
  /\ proc' = [proc EXCEPT ![p] = "exited"]
  /\ told' = told \ {p}
  /\ endpoint' = IF endpoint = p THEN None ELSE endpoint

\* Held is raised, which ends the process, if the record has another owner.
Check(p) ==
  /\ p \notin told
  /\ To(p, "booting", IF Owner = None \/ p \in Rude THEN "opening" ELSE "exited")
  /\ UNCHANGED <<patchbay, begins, told, endpoint, record>>

\* The device is open: acquire() looks, writes and looks again.
Look(p) ==
  /\ p \notin told
  /\ To(p, "opening", IF Owner \in {None, p} \/ p \in Rude THEN "claiming" ELSE "exited")
  /\ UNCHANGED <<patchbay, begins, told, endpoint, record>>

Write(p) ==
  /\ p \notin told
  /\ To(p, "claiming", "settling")
  /\ record' = p
  /\ UNCHANGED <<patchbay, begins, told, endpoint>>

Settle(p) ==
  /\ p \notin told
  /\ To(p, "settling", IF record \in {None, p} \/ p \in Rude THEN "binding" ELSE "exited")
  /\ UNCHANGED <<patchbay, begins, told, endpoint, record>>

\* serve_forever: unlink what is at the path and bind it.
Listen(p) ==
  /\ p \notin told
  /\ To(p, "binding", "serving")
  /\ endpoint' = p
  /\ UNCHANGED <<patchbay, begins, told, record>>

\* release() leaves the record of somebody else alone.  SIGTERM runs it first
\* in _bye, and again in serve()'s own finally, after which the process ends.
Release(p) ==
  /\ \/ /\ p \in told /\ record \in {None, p}
        /\ To(p, "binding", "dropping") \/ To(p, "serving", "dropping")
     \/ /\ p \in told /\ record \notin {None, p}
        /\ To(p, "binding", "released") \/ To(p, "serving", "released")
     \/ /\ record \in {None, p}
        /\ To(p, "closed twice", "dropping again")
  /\ UNCHANGED <<patchbay, begins, told, endpoint, record>>

Drop(p) ==
  /\ \/ To(p, "dropping", "released") /\ UNCHANGED <<told, endpoint>>
     \/ proc[p] = "dropping again" /\ Ends(p)
  /\ record' = None
  /\ UNCHANGED <<patchbay, begins>>

\* _bye closes, and so does serve_forever's finally if the signal came inside
\* its try.  Each close unlinks the path, whoever bound it.
CloseOnce(p) ==
  /\ To(p, "released", "closed")
  /\ endpoint' = None
  /\ UNCHANGED <<patchbay, begins, told, record>>

CloseAgain(p) ==
  /\ To(p, "closed", "closed twice")
  /\ endpoint' \in {None, endpoint}
  /\ UNCHANGED <<patchbay, begins, told, record>>

\* accept() raised: the finally closes, and serve()'s own releases.
AcceptFails(p) ==
  /\ To(p, "serving", "closed twice")
  /\ endpoint' = None
  /\ UNCHANGED <<patchbay, begins, told, record>>

\* A device that will not open, a crash, SIGTERM before the handler is in place,
\* the end of serve().
Die(p) ==
  /\ Alive(p)
  /\ Ends(p)
  /\ UNCHANGED <<patchbay, begins, record>>

\* SIGTERM by hand, or by a plan's take-over, to whom the record names by then.
Interrupt(p) ==
  /\ p \in Hand \/ p = Owner
  /\ Alive(p) /\ p \notin told
  /\ told' = told \cup {p}
  /\ UNCHANGED <<patchbay, begins, proc, endpoint, record>>

-----------------------------------------------------------------------------
(* start() and begin() *)

Goes(b, from, to) == at[b] = from /\ at' = [at EXCEPT ![b] = to]

\* The call returns, and its locals with it.
Returns(b, from) ==
  /\ Goes(b, from, "idle")
  /\ saw' = [saw EXCEPT ![b] = FALSE] /\ rounds' = [rounds EXCEPT ![b] = 0]

\* Names are interchangeable: a new call takes a free one, a spawn the next pid.
Free(b) == at[b] = "idle" /\ b = CHOOSE c \in Starts : at[c] = "idle"
Unborn == {p \in Ours : proc[p] = "unborn"}

StartUnguarded(b) ==  \* mutant: without `if (this.starting)`
  /\ status # "running"
  /\ Free(b) /\ Unborn # {}
  /\ Goes(b, "idle", "probe")
  /\ saw' = [saw EXCEPT ![b] = EndpointUp]
  /\ UNCHANGED <<patchbay, rounds, system>>

\* A start that is in flight is joined, a running daemon is enough.  The kernel
\* accepts or refuses the probe's connect at once; begin() hears of it later.
Start(b) ==
  /\ \A c \in Starts : at[c] = "idle"
  /\ status # "running"
  /\ Free(b) /\ Unborn # {}
  /\ Goes(b, "idle", "probe")
  /\ saw' = [saw EXCEPT ![b] = EndpointUp]
  /\ UNCHANGED <<patchbay, rounds, system>>

Adopt(b) ==
  /\ saw[b]
  /\ Returns(b, "probe")
  /\ status' = "running" /\ external' = TRUE /\ live' = TRUE
  /\ UNCHANGED <<child, winding, doomed, left, system>>

NotInstalled(b) ==
  /\ ~saw[b]
  /\ Returns(b, "probe")
  /\ UNCHANGED <<patchbay, system>>

\* Unlink the path and spawn, with no step between.
Spawn(b) ==
  /\ ~saw[b]
  /\ Goes(b, "probe", "wait")
  /\ Unborn # {}
  /\ LET p == CHOOSE q \in Unborn : TRUE
     IN child' = p /\ To(p, "unborn", "booting")
  /\ status' = "starting" /\ live' = TRUE /\ endpoint' = None
  /\ UNCHANGED <<external, winding, doomed, left, saw, rounds, told, record>>

\* One round of the wait: ask the endpoint, unless the child is gone.
Ask(b) ==
  /\ child # None
  /\ Goes(b, "wait", "ask")
  /\ saw' = [saw EXCEPT ![b] = EndpointUp]
  /\ UNCHANGED <<patchbay, rounds, system>>

Gone(b) ==
  /\ child = None
  /\ Returns(b, "wait")
  /\ UNCHANGED <<patchbay, system>>

Up(b) ==
  /\ saw[b]
  /\ Returns(b, "ask")
  /\ status' = "running"
  /\ UNCHANGED <<child, external, live, winding, doomed, left, system>>

AgainForEver(b) ==  \* mutant: a wait without a bound
  /\ ~saw[b]
  /\ Goes(b, "ask", "wait")
  /\ UNCHANGED <<patchbay, saw, rounds, system>>

AgainOnceMore(b) ==  \* mutant: off by one
  /\ ~saw[b] /\ rounds[b] + 1 <= MaxRounds
  /\ Goes(b, "ask", "wait")
  /\ rounds' = [rounds EXCEPT ![b] = @ + 1]
  /\ UNCHANGED <<patchbay, saw, system>>

Again(b) ==
  /\ ~saw[b] /\ rounds[b] + 1 < MaxRounds
  /\ Goes(b, "ask", "wait")
  /\ rounds' = [rounds EXCEPT ![b] = @ + 1]
  /\ UNCHANGED <<patchbay, saw, system>>

-----------------------------------------------------------------------------
(* stop() *)

Terminate(p) == told' = IF Alive(p) THEN told \cup {p} ELSE told

Forget == status' = "stopped" /\ child' = None /\ external' = FALSE

StopChildNoTimer ==  \* mutant: SIGTERM alone
  /\ child # None
  /\ Terminate(child) /\ doomed' = doomed
  /\ left' = [left EXCEPT ![child] = "stopped"]
  /\ live' = FALSE /\ endpoint' = IF live THEN None ELSE endpoint
  /\ UNCHANGED winding

\* SIGTERM now and SIGKILL in two seconds; the socket goes at once.
StopChild ==
  /\ child # None
  /\ Terminate(child) /\ doomed' = doomed \cup {child}
  /\ left' = [left EXCEPT ![child] = "stopped"]
  /\ live' = FALSE /\ endpoint' = IF live THEN None ELSE endpoint
  /\ UNCHANGED winding

\* An adopted daemon: SIGTERM to whoever the record names, then wait for it.
StopAdopted ==
  /\ child = None /\ external
  /\ told' = IF Owner = None THEN told ELSE told \cup {Owner}
  /\ winding' = TRUE
  /\ UNCHANGED <<live, doomed, endpoint, left>>

StopNothing ==
  /\ child = None /\ ~external
  /\ live' = FALSE /\ endpoint' = IF live THEN None ELSE endpoint
  /\ UNCHANGED <<told, winding, doomed, left>>

StopNow ==
  /\ Forget
  /\ StopChild \/ StopAdopted \/ StopNothing
  /\ UNCHANGED <<proc, record>>

\* Disconnect, the first step of a plan, a device that went missing: at any
\* time, and what comes after it does not wait for the child to be gone.
Stop ==
  /\ StopNow
  /\ UNCHANGED begins

\* begin() gives up after the last round.
GiveUp(b) ==
  /\ ~saw[b] /\ rounds[b] + 1 = MaxRounds
  /\ Returns(b, "ask")
  /\ StopNow

\* The waits of a stop() that evicted are over, one way or the other.
WindDown ==
  /\ winding
  /\ winding' = FALSE /\ live' = FALSE
  /\ UNCHANGED <<child, external, status, doomed, left, begins, system>>

Kill(p) ==
  /\ p \in doomed
  /\ doomed' = doomed \ {p}
  /\ IF Alive(p) THEN Ends(p) ELSE UNCHANGED <<proc, told, endpoint>>
  /\ UNCHANGED <<child, external, status, live, winding, left, begins, record>>

\* The child Patchbay has no handle of any more, if p's exit handler takes it.
Strays(p) ==
  left' = [c \in Ours |-> IF c = child /\ c # p THEN "strayed" ELSE left[c]]

ExitEventSilent(p) ==  \* mutant: the handler leaves the state alone
  /\ p \in Ours /\ To(p, "exited", "reaped")
  /\ child' = None /\ Strays(p)
  /\ UNCHANGED <<status, external, live, winding, doomed, begins, told, endpoint, record>>

\* The exit handler begin() left on a child, whichever child is the current one.
ExitEvent(p) ==
  /\ p \in Ours /\ To(p, "exited", "reaped")
  /\ child' = None /\ Strays(p)
  /\ status' = "stopped"
  /\ UNCHANGED <<external, live, winding, doomed, begins, told, endpoint, record>>

Serve(p) ==
  \/ HandStart(p) \/ Check(p) \/ Look(p) \/ Write(p) \/ Settle(p) \/ Listen(p)
  \/ Release(p) \/ Drop(p) \/ CloseOnce(p) \/ CloseAgain(p)
  \/ AcceptFails(p) \/ Die(p) \/ Interrupt(p)

Begin(b) ==
  \/ Adopt(b) \/ NotInstalled(b) \/ Spawn(b)
  \/ Ask(b) \/ Gone(b) \/ Up(b) \/ Again(b) \/ GiveUp(b)

Next ==
  \/ \E p \in Procs : Serve(p)
  \/ \E b \in Starts : Start(b) \/ Begin(b)
  \/ Stop \/ WindDown
  \/ \E p \in Ours : Kill(p) \/ ExitEvent(p)

Spec == Init /\ [][Next]_vars

\* A begin() that is due runs, and so does a timer of stop(); no daemon need do
\* anything, nor need Patchbay hear of one's exit.
FairSpec ==
  /\ Spec
  /\ WF_vars(\E b \in Starts : Begin(b))
  /\ \A p \in Ours : WF_vars(Kill(p))

-----------------------------------------------------------------------------
(* Properties *)

TypeOK ==
  /\ child \in Ours \cup {None} /\ external \in BOOLEAN /\ live \in BOOLEAN
  /\ status \in {"stopped", "starting", "running"}
  /\ at \in [Starts -> {"idle", "probe", "wait", "ask"}]
  /\ saw \in [Starts -> BOOLEAN] /\ rounds \in [Starts -> 0 .. MaxRounds - 1]
  /\ winding \in BOOLEAN /\ doomed \in SUBSET Ours
  /\ proc \in [Procs -> Living \cup {"unborn", "exited", "reaped"}]
  /\ told \in SUBSET Procs
  /\ endpoint \in Procs \cup {None} /\ record \in Procs \cup {None}
  /\ left \in [Ours -> {"no", "stopped", "strayed"}]

\* A daemon of Patchbay's own that was not told to stop is its child, so that
\* Disconnect reaches it, however starts, stops and exits overlap (daemon.ts
\* 59-62, "One start at a time").  There is one way to lose it: the exit of an
\* earlier child, which clears whichever child is the current one (192-193).
NoOrphan ==
  \A p \in Ours : Alive(p) /\ p \notin told => child = p \/ left[p] = "strayed"

\* While Patchbay says "starting", a start is at work on a child it still has:
\* no stop, exit or rival leaves the word standing with nobody to change it
\* (run-plan.ts 56, "used to leave the app saying "starting..." for ever").
StartingIsAtWork ==
  status = "starting" => child # None /\ \E b \in Starts : at[b] \in {"wait", "ask"}

\* A child that stop() was called for goes, even if it hangs on SIGTERM.
StopEnds == \A p \in Ours : left[p] = "stopped" ~> ~Alive(p)

\* A start always comes to an end: running, failed or given up, though the
\* daemon neither listens nor exits.
StartEnds == (\E b \in Starts : at[b] # "idle") ~> (\A b \in Starts : at[b] = "idle")
=============================================================================
