---------------------------- MODULE SessionLock -----------------------------
(***************************************************************************)
(* session.json: the advisory record of who holds the Quad Cortex          *)
(* (lockfile.py), as the two programs that write it use it: the daemon,    *)
(* which refuses to start next to a live owner (daemon.serve), and a stdio *)
(* MCP server that opened the device itself and takes the record over      *)
(* (server._conn, _claim, _disconnect).                                    *)
(*                                                                         *)
(* Every access to the file is a step of its own: between a process's look *)
(* at the record and what it does about it, others run.  A process may be  *)
(* killed at any step; what it wrote stays.                                *)
(***************************************************************************)
EXTENDS Integers

CONSTANTS
  Daemons,    \* processes running `qc-mcp --daemon`
  Servers,    \* stdio MCP servers that open the device themselves
  Takeover,   \* the daemons started with --takeover
  Direct,     \* who opens in direct mode, seizing the device; the others ride
              \* or share a session (bridge, shared)
  None        \* no record

Procs == Daemons \cup Servers

ASSUME LockAssumption ==
  /\ Daemons \cap Servers = {} /\ None \notin Procs
  /\ Takeover \subseteq Daemons /\ Direct \subseteq Procs

VARIABLES
  record,  \* the pid in session.json, or None
  device,  \* the processes that have the device open
  pc       \* what each process does next

lockVars == <<record, device, pc>>

Inside  == {"check", "open", "acquire", "write", "settle", "serving",
            "release", "unlink", "close", "release again", "unlink again"}
Running == Inside \cup {"idle"}
Over    == {"not started", "held", "gone"}

Alive(p) == pc[p] \in Running
Forced(p) == p \in Servers \cup Takeover

LockInit ==
  /\ record = None /\ device = {}
  /\ pc = [p \in Procs |-> IF p \in Servers THEN "idle" ELSE "not started"]

Go(p, from, to) == pc[p] = from /\ pc' = [pc EXCEPT ![p] = to]

ReadAny == record  \* mutant: a record is an owner, dead or alive

\* read(): the record, unless its process is gone.
ReadLive == IF record # None /\ Alive(record) THEN record ELSE None

\* A daemon starts; a server gets its first tool call, or the next after a
\* disconnect.  Only the daemon looks at the record before opening.
Start(p) ==
  /\ \/ p \in Daemons /\ Go(p, "not started", "check")
     \/ p \in Servers /\ Go(p, "idle", "open")
  /\ UNCHANGED <<record, device>>

Check(p) ==
  /\ IF ReadLive # None /\ p \notin Takeover
     THEN Go(p, "check", "held")
     ELSE Go(p, "check", "open")
  /\ UNCHANGED <<record, device>>

OpenAfterAcquire(p) ==  \* mutant: the record goes in before the device is open
  /\ Go(p, "open", "acquire")
  /\ UNCHANGED <<record, device>>

\* The device cannot be seized from others, nor shared once it is seized.
Refused(p) == \E q \in device : p \in Direct \/ q \in Direct

\* QuadCortex(...).open()
Open(p) ==
  /\ ~Refused(p)
  /\ Go(p, "open", "acquire")
  /\ device' = device \cup {p}
  /\ UNCHANGED record

OpenFails(p) ==
  /\ Refused(p)
  /\ Go(p, "open", IF p \in Servers THEN "idle" ELSE "gone")
  /\ UNCHANGED <<record, device>>

\* acquire(): look, write, look again.  Held is raised out of serve(), which
\* ends the daemon and closes the device with it; a server forces its claim.
Acquire(p) ==
  LET refused == ReadLive \notin {None, p} /\ ~Forced(p)
  IN /\ Go(p, "acquire", IF refused THEN "held" ELSE "write")
     /\ device' = IF refused THEN device \ {p} ELSE device
     /\ UNCHANGED record

Write(p) ==
  /\ Go(p, "write", "settle")
  /\ record' = p
  /\ UNCHANGED device

Settle(p) ==
  LET refused == record \notin {None, p} /\ ~Forced(p)
  IN /\ Go(p, "settle", IF refused THEN "held" ELSE "serving")
     /\ device' = IF refused THEN device \ {p} ELSE device
     /\ UNCHANGED record

\* SIGTERM or SIGINT runs _bye: release, then close, then the release in
\* serve()'s own finally.  A server's disconnect, and a daemon whose accept
\* loop raised, close first.
Stop(p) ==
  /\ \/ p \in Daemons /\ Go(p, "serving", "release")
     \/ Go(p, "serving", "close")
  /\ UNCHANGED <<record, device>>

AfterLastReleaseIdle(p) == "idle"  \* mutant: a daemon lingers after _bye

AfterLastRelease(p) == IF p \in Servers THEN "idle" ELSE "gone"

\* release(): somebody else's record is left alone; then unlink.
Release(p) ==
  /\ \/ /\ record \in {None, p}
        /\ \/ Go(p, "release", "unlink")
           \/ Go(p, "release again", "unlink again")
     \/ /\ record \notin {None, p}
        /\ \/ Go(p, "release", "close")
           \/ Go(p, "release again", AfterLastRelease(p))
  /\ UNCHANGED <<record, device>>

Unlink(p) ==
  /\ \/ Go(p, "unlink", "close")
     \/ Go(p, "unlink again", AfterLastRelease(p))
  /\ record' = None
  /\ UNCHANGED device

CloseDevice(p) ==
  /\ Go(p, "close", "release again")
  /\ device' = device \ {p}
  /\ UNCHANGED record

\* Killed, or gone without a disconnect: the handle closes, the record stays.
Die(p) ==
  /\ Alive(p)
  /\ pc' = [pc EXCEPT ![p] = "gone"]
  /\ device' = device \ {p}
  /\ UNCHANGED record

Step(p) ==
  \/ Check(p) \/ Open(p) \/ OpenFails(p) \/ Acquire(p) \/ Write(p) \/ Settle(p)
  \/ Release(p) \/ Unlink(p) \/ CloseDevice(p)

LockNext == \E p \in Procs : Start(p) \/ Step(p) \/ Stop(p) \/ Die(p)

LockSpec == LockInit /\ [][LockNext]_lockVars
FairLockSpec == LockSpec /\ \A p \in Procs : WF_lockVars(Step(p))

-----------------------------------------------------------------------------
(* Properties *)

LockTypeOK ==
  /\ record \in Procs \cup {None}
  /\ device \in SUBSET Procs
  /\ pc \in [Procs -> Running \cup Over]
  /\ \A p \in Daemons : pc[p] # "idle"

\* The record never claims a session that failed to start: the live process it
\* names has the device open, or is a server on its way from closing it to
\* releasing the record (daemon.serve, "The record goes in AFTER the device is
\* open, so it never claims a session that failed to start").
RecordBacked ==
  record # None /\ Alive(record)
    => record \in device \/ pc[record] \in {"release again", "unlink again"}

\* A record left by a crash stops nobody: a daemon that starts when every other
\* process is gone comes to serve (lockfile.py, "a record whose process is gone
\* is stale and may be taken without ceremony").
Alone(p) == \A q \in Procs \ {p} : ~Alive(q)
StaleRecordIsTaken ==
  \A p \in Daemons :
    pc[p] = "check" /\ Alone(p)
      ~> (pc[p] \in {"serving", "gone"} \/ ~Alone(p))
=============================================================================
