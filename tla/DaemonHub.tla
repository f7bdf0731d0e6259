------------------------------ MODULE DaemonHub ------------------------------
(***************************************************************************)
(* The qc-mcp daemon: one process owns the Quad Cortex and lets any number *)
(* of attached clients share its session (daemon.py).                      *)
(*                                                                         *)
(* One pump thread takes reports off the device and copies every one of    *)
(* them to the queue of every registered client; one thread per client     *)
(* answers that client's calls over a socket.  A client is named by the    *)
(* number the daemon gives its connection, which is never reused: a        *)
(* process that attaches again is a new client.  Reports are numbered in   *)
(* the order the device produced them.                                     *)
(***************************************************************************)
EXTENDS Integers, Sequences, SequencesExt

CONSTANTS
  MaxClients,  \* bound: connections the daemon ever accepts
  ReqStride,   \* REQ_STRIDE: request ids in one client's slice
  QueueCap,    \* QUEUE_CAP: reports kept for a client that stopped reading
  MaxReports,  \* bound: reports the device ever produces
  MaxCalls     \* bound: how many calls each client ever makes

ASSUME HubAssumption ==
  /\ MaxClients \in Nat /\ ReqStride \in Nat \ {0} /\ QueueCap \in Nat \ {0}
  /\ MaxReports \in Nat /\ MaxCalls \in [0 .. MaxClients - 1 -> Nat]

VARIABLES
  emitted,     \* reports the device has produced so far
  pumped,      \* reports the pump has taken off the device
  pump,        \* where the pump thread is: "read", "snapshot" or "fan_out"
  batch,       \* the reports of the round the pump is in
  targets,     \* clients that round still has to be copied to
  nextClient,  \* _next_client
  serving,     \* the registry _clients: connections with a live thread
  queue,       \* per client: reports waiting for its next read
  calls,       \* per client: the socket towards the daemon
  replies,     \* per client: the socket towards the client
  writer,      \* who holds _write_lock, inside set_report on the device
  stopping,    \* the _stop event
  phase,       \* per client: SocketTransport's life
  call,        \* per client: the call _rpc is waiting on
  callId,      \* per client: SocketTransport._id
  reqBase,     \* per client: the offset attach() adds to the request ids
  used,        \* per client: request ids drawn since attaching
  got,         \* per client: every report its reads have returned
  joined,      \* history: reports already handed out when it registered
  lost         \* history: reports it was owed were discarded on the way

hubVars    == <<nextClient, serving, calls, replies, writer, stopping>>
pumpVars   == <<emitted, pumped, pump, batch, targets>>
clientVars == <<phase, call, callId, reqBase, used, got, joined>>
vars == <<pumpVars, hubVars, clientVars, queue, lost>>

Cids    == 0 .. MaxClients - 1
Reports == 1 .. MaxReports
Ops     == {"hello", "read", "write", "status", "bye"}
Call    == [id : Nat, op : Ops]
Reply   == [id : Nat, op : Ops, reports : Seq(Reports), base : Nat]
NoCall  == [id |-> 0, op |-> "none"]
Nobody  == -1

InFlight(c) == FlattenSeq([i \in 1 .. Len(replies[c]) |-> replies[c][i].reports])

Interval(lo, hi) == [i \in 1 .. hi - lo |-> lo + i]

Init ==
  /\ emitted = 0 /\ pumped = 0
  /\ pump = "read" /\ batch = <<>> /\ targets = {}
  /\ nextClient = 0 /\ serving = {}
  /\ queue = [c \in Cids |-> <<>>]
  /\ calls = [c \in Cids |-> <<>>]
  /\ replies = [c \in Cids |-> <<>>]
  /\ writer = Nobody /\ stopping = FALSE
  /\ phase = [c \in Cids |-> "off"]
  /\ call = [c \in Cids |-> NoCall]
  /\ callId = [c \in Cids |-> 0]
  /\ reqBase = [c \in Cids |-> 0]
  /\ used = [c \in Cids |-> 0]
  /\ got = [c \in Cids |-> <<>>]
  /\ joined = [c \in Cids |-> 0]
  /\ lost = [c \in Cids |-> FALSE]

-----------------------------------------------------------------------------
(* The device and the pump thread *)

Emit ==
  /\ emitted < MaxReports
  /\ emitted' = emitted + 1
  /\ UNCHANGED <<pumped, pump, batch, targets, hubVars, clientVars, queue, lost>>

FreshFromZero == Interval(pumped - 1, emitted)  \* mutant: one report too many

\* read_reports hands over everything that has arrived since the last call.
Fresh == Interval(pumped, emitted)

PumpRead ==
  /\ pump = "read" /\ ~stopping
  /\ pumped < emitted
  /\ batch' = Fresh
  /\ pumped' = emitted
  /\ pump' = "snapshot"
  /\ UNCHANGED <<emitted, targets, hubVars, clientVars, queue, lost>>

PumpSnapshotOneLock ==  \* mutant: one lock for the registry and the writes
  /\ pump = "snapshot" /\ writer = Nobody
  /\ targets' = serving
  /\ pump' = IF serving = {} THEN "read" ELSE "fan_out"
  /\ UNCHANGED <<emitted, pumped, batch, hubVars, clientVars, queue, lost>>

\* The registry is copied under _lock; the appends below run without it.
PumpSnapshot ==
  /\ pump = "snapshot"
  /\ targets' = serving
  /\ pump' = IF serving = {} THEN "read" ELSE "fan_out"
  /\ UNCHANGED <<emitted, pumped, batch, hubVars, clientVars, queue, lost>>

Untrimmed(q) == q  \* mutant: no cap

Trimmed(q) ==
  IF Len(q) > QueueCap THEN SubSeq(q, Len(q) - QueueCap + 1, Len(q)) ELSE q

\* Clients are visited in the order they registered.  One that has left since
\* the snapshot is still a target, but nobody will read its queue.
FanOut ==
  /\ pump = "fan_out"
  /\ LET c    == Min(targets)
         full == IF c \in serving THEN queue[c] \o batch ELSE <<>>
     IN /\ queue' = [queue EXCEPT ![c] = Trimmed(full)]
        /\ lost' = [lost EXCEPT ![c] = @ \/ Trimmed(full) # full]
        /\ targets' = targets \ {c}
        /\ pump' = IF targets = {c} THEN "read" ELSE "fan_out"
  /\ UNCHANGED <<emitted, pumped, batch, hubVars, clientVars>>

-----------------------------------------------------------------------------
(* The daemon's side of one connection *)

HandedOut == IF pump = "snapshot" THEN pumped - Len(batch) ELSE pumped

\* accept() starts a thread that registers the connection; the client's first
\* call, hello, is on its way.
Attach(c) ==
  /\ c = nextClient /\ ~stopping
  /\ nextClient' = nextClient + 1
  /\ serving' = serving \cup {c}
  /\ phase' = [phase EXCEPT ![c] = "greeting"]
  /\ callId' = [callId EXCEPT ![c] = 1]
  /\ call' = [call EXCEPT ![c] = [id |-> 1, op |-> "hello"]]
  /\ calls' = [calls EXCEPT ![c] = <<[id |-> 1, op |-> "hello"]>>]
  /\ joined' = [joined EXCEPT ![c] = HandedOut]
  /\ UNCHANGED <<pumpVars, replies, writer, stopping, reqBase, used, got, queue, lost>>

Oldest(c) == Head(calls[c])

Ready(c, op) ==
  /\ c \in serving /\ ~stopping
  /\ calls[c] # <<>> /\ Oldest(c).op = op

AnswerFirst(c, reports, base) ==  \* mutant: replies overtake each other
  /\ calls' = [calls EXCEPT ![c] = Tail(@)]
  /\ replies' = [replies EXCEPT ![c] = <<[id |-> Oldest(c).id, op |-> Oldest(c).op,
       reports |-> reports, base |-> base]>> \o @]

Answer(c, reports, base) ==
  /\ calls' = [calls EXCEPT ![c] = Tail(@)]
  /\ replies' = [replies EXCEPT ![c] = Append(@,
       [id |-> Oldest(c).id, op |-> Oldest(c).op, reports |-> reports, base |-> base])]

NoSlice(c) == 0  \* mutant: every client starts at the same id

Slice(c) == ReqStride * c

HandleHello(c) ==
  /\ Ready(c, "hello")
  /\ Answer(c, <<>>, Slice(c))
  /\ UNCHANGED <<pumpVars, nextClient, serving, writer, stopping, clientVars, queue, lost>>

HandleStatus(c) ==
  /\ Ready(c, "status")
  /\ Answer(c, <<>>, 0)
  /\ UNCHANGED <<pumpVars, nextClient, serving, writer, stopping, clientVars, queue, lost>>

HandleReadNoClear(c) ==  \* mutant: the batch stays queued
  /\ Ready(c, "read")
  /\ Answer(c, queue[c], 0)
  /\ UNCHANGED <<pumpVars, nextClient, serving, writer, stopping, clientVars, queue, lost>>

HandleReadShort(c) ==  \* mutant: clears a report it did not copy
  /\ Ready(c, "read")
  /\ Answer(c, IF queue[c] = <<>> THEN <<>> ELSE Tail(queue[c]), 0)
  /\ queue' = [queue EXCEPT ![c] = <<>>]
  /\ UNCHANGED <<pumpVars, nextClient, serving, writer, stopping, clientVars, lost>>

\* Copy and clear are one step: both happen under the client's queue lock.
HandleRead(c) ==
  /\ Ready(c, "read")
  /\ Answer(c, queue[c], 0)
  /\ queue' = [queue EXCEPT ![c] = <<>>]
  /\ UNCHANGED <<pumpVars, nextClient, serving, writer, stopping, clientVars, lost>>

\* A write holds _write_lock for as long as the HID write takes.
WriteBegin(c) ==
  /\ Ready(c, "write")
  /\ writer = Nobody
  /\ writer' = c
  /\ UNCHANGED <<pumpVars, nextClient, serving, calls, replies, stopping, clientVars, queue, lost>>

WriteEnd(c) ==
  /\ writer = c
  /\ writer' = Nobody
  /\ Answer(c, <<>>, 0)
  /\ UNCHANGED <<pumpVars, nextClient, serving, stopping, clientVars, queue, lost>>

Unregister(c) ==
  /\ serving' = serving \ {c}
  /\ queue' = [queue EXCEPT ![c] = <<>>]
  /\ UNCHANGED <<pumpVars, nextClient, stopping, clientVars, lost>>

\* bye is answered and then ends the thread.
HandleBye(c) ==
  /\ Ready(c, "bye")
  /\ Answer(c, <<>>, 0)
  /\ Unregister(c)
  /\ UNCHANGED writer

\* The thread ends by itself: the peer is gone, the answer to its oldest call
\* could not be sent (a peer that left, a socket that stayed full), or the
\* daemon is stopping and the thread is not inside a call.
Drop(c) ==
  /\ c \in serving
  /\ \/ calls[c] # <<>>
     \/ writer # c /\ (phase[c] = "gone" \/ stopping)
  /\ calls' = [calls EXCEPT ![c] = <<>>]
  /\ writer' = IF writer = c THEN Nobody ELSE writer
  /\ Unregister(c)
  /\ UNCHANGED replies

\* close(): the threads notice at their next poll, within half a second.
Close ==
  /\ ~stopping
  /\ stopping' = TRUE
  /\ UNCHANGED <<pumpVars, nextClient, serving, calls, replies, writer, clientVars, queue, lost>>

-----------------------------------------------------------------------------
(* SocketTransport: the client's side *)

\* One call at a time, under the transport's own lock.  A write carries a
\* report of a message that drew the next request id.
Rpc(c, op) ==
  /\ phase[c] = "up" /\ call[c] = NoCall /\ c \in serving
  /\ callId[c] < MaxCalls[c]
  /\ LET new == [id |-> callId[c] + 1, op |-> op]
     IN /\ call' = [call EXCEPT ![c] = new]
        /\ calls' = [calls EXCEPT ![c] = Append(@, new)]
  /\ callId' = [callId EXCEPT ![c] = @ + 1]
  /\ used' = [used EXCEPT ![c] = IF op = "write" THEN @ + 1 ELSE @]
  /\ phase' = [phase EXCEPT ![c] = IF op = "bye" THEN "closing" ELSE "up"]
  /\ UNCHANGED <<pumpVars, nextClient, serving, replies, writer, stopping,
                 reqBase, got, joined, queue, lost>>

AfterCall(c) == IF phase[c] \in {"greeting", "closing"} THEN "gone" ELSE phase[c]

AnyReply(c) == TRUE  \* mutant: the next line is the answer

IsAnswer(c) == Head(replies[c]).id = call[c].id

\* The reply that carries the awaited id ends the call.
TakeReply(c) ==
  /\ call[c] # NoCall /\ replies[c] # <<>>
  /\ LET r == Head(replies[c])
     IN /\ IsAnswer(c)
        /\ got' = [got EXCEPT ![c] = @ \o r.reports]
        /\ reqBase' = [reqBase EXCEPT ![c] = IF r.op = "hello" THEN r.base ELSE @]
  /\ call' = [call EXCEPT ![c] = NoCall]
  /\ phase' = [phase EXCEPT ![c] = IF @ = "greeting" THEN "up" ELSE AfterCall(c)]
  /\ replies' = [replies EXCEPT ![c] = Tail(@)]
  /\ UNCHANGED <<pumpVars, nextClient, serving, calls, writer, stopping,
                 callId, used, joined, queue, lost>>

\* A late reply to a call that timed out is skipped, reports and all.
SkipLateReply(c) ==
  /\ call[c] # NoCall /\ replies[c] # <<>>
  /\ ~IsAnswer(c)
  /\ lost' = [lost EXCEPT ![c] = @ \/ Head(replies[c]).reports # <<>>]
  /\ replies' = [replies EXCEPT ![c] = Tail(@)]
  /\ UNCHANGED <<pumpVars, nextClient, serving, calls, writer, stopping, clientVars, queue>>

\* No reply in time: the call fails.  A failed hello or bye ends the transport.
TimeOut(c) ==
  /\ call[c] # NoCall
  /\ replies[c] = <<>>
  /\ call' = [call EXCEPT ![c] = NoCall]
  /\ phase' = [phase EXCEPT ![c] = AfterCall(c)]
  /\ UNCHANGED <<pumpVars, hubVars, callId, reqBase, used, got, joined, queue, lost>>

\* The client process dies, or drops its transport without a bye.  What is on
\* the socket towards it goes with the socket.
Crash(c) ==
  /\ phase[c] \in {"greeting", "up", "closing"}
  /\ phase' = [phase EXCEPT ![c] = "gone"]
  /\ call' = [call EXCEPT ![c] = NoCall]
  /\ replies' = [replies EXCEPT ![c] = <<>>]
  /\ lost' = [lost EXCEPT ![c] = @ \/ InFlight(c) # <<>>]
  /\ UNCHANGED <<pumpVars, nextClient, serving, calls, writer, stopping,
                 callId, reqBase, used, got, joined, queue>>

Pump == PumpRead \/ PumpSnapshot \/ FanOut

Handle(c) ==
  \/ HandleHello(c) \/ HandleStatus(c) \/ HandleRead(c)
  \/ WriteBegin(c) \/ WriteEnd(c) \/ HandleBye(c)

Receive(c) == TakeReply(c) \/ SkipLateReply(c)

Next ==
  \/ Emit \/ Pump \/ Close
  \/ \E c \in Cids :
       \/ Attach(c) \/ Handle(c) \/ Drop(c)
       \/ \E op \in {"read", "write", "status", "bye"} : Rpc(c, op)
       \/ Receive(c) \/ TimeOut(c) \/ Crash(c)

Spec == Init /\ [][Next]_vars

-----------------------------------------------------------------------------
(* Properties *)

PumpTypes ==
  /\ emitted \in 0 .. MaxReports /\ pumped \in 0 .. emitted
  /\ pump \in {"read", "snapshot", "fan_out"}
  /\ batch \in Seq(Reports) /\ targets \in SUBSET Cids

HubTypes ==
  /\ nextClient \in 0 .. MaxClients /\ serving \in SUBSET Cids
  /\ calls \in [Cids -> Seq(Call)] /\ replies \in [Cids -> Seq(Reply)]
  /\ writer \in Cids \cup {Nobody} /\ stopping \in BOOLEAN

ClientTypes ==
  /\ phase \in [Cids -> {"off", "greeting", "up", "closing", "gone"}]
  /\ call \in [Cids -> Call \cup {NoCall}]
  /\ callId \in [Cids -> Nat]
  /\ reqBase \in [Cids -> Nat] /\ used \in [Cids -> Nat]
  /\ got \in [Cids -> Seq(Reports)]
  /\ joined \in [Cids -> 0 .. MaxReports]

QueueTypes == queue \in [Cids -> Seq(Reports)] /\ lost \in [Cids -> BOOLEAN]

TypeOK == PumpTypes /\ HubTypes /\ ClientTypes /\ QueueTypes

\* Everything client c has been given, oldest first: taken in, on the socket,
\* or still queued for its next read.
Stream(c) == got[c] \o InFlight(c) \o queue[c]

Owes(c) == pump = "snapshot" \/ (pump = "fan_out" /\ c \in targets)
GivenUpTo(c) == IF Owes(c) THEN pumped - Len(batch) ELSE pumped

\* Nothing is lost, doubled or reordered on the way to a client that keeps up:
\* what it has been given is exactly the run of reports since it registered, up
\* to the round the pump is in.  This is the pump, the queue locks and the
\* atomic drain of _handle together (daemon.py _pump, _serve_client, _handle).
StreamComplete ==
  \A c \in serving : ~lost[c] => Stream(c) = Interval(joined[c], GivenUpTo(c))

\* Even a client that lost reports (its queue was trimmed, or a read answered
\* too late) never sees one twice or out of order, which is what lets the
\* message reassembly above it work report by report.
StreamOrdered ==
  \A c \in Cids : \A i, j \in 1 .. Len(Stream(c)) :
    i < j => Stream(c)[i] < Stream(c)[j]

\* A queue nobody drains stays within QUEUE_CAP, whatever the size of a round.
QueueBounded == \A c \in Cids : Len(queue[c]) <= QueueCap

\* attach() gives every client a slice of the request ids: two clients that
\* stay within one slice each never use the same id, so neither can take the
\* other's reply for its own (daemon.py 46-47 and 417-420).  The ids of a client
\* are the ones it drew and, while it is connected, the one it draws next.
Drawn(c) == IF phase[c] = "up" THEN used[c] + 1 ELSE used[c]
RequestIds(c) == {reqBase[c] + i : i \in 1 .. Drawn(c)}
SlicesDisjoint ==
  \A c, d \in Cids :
    c # d /\ Drawn(c) <= ReqStride /\ Drawn(d) <= ReqStride
      => RequestIds(c) \cap RequestIds(d) = {}

\* Only the answer to a read brings reports in: the reply to a call that timed
\* out is never taken for the answer to a later one (SocketTransport._rpc).
AnswersOwnCall ==
  [][\A c \in Cids : got'[c] # got[c] => call[c].op = "read"]_vars

\* A write that hangs on the device, and clients that stopped reading, hold up
\* nobody: every report reaches the queue of every client still served (the
\* two locks of Daemon.__init__, lines 153-157).  Only the pump need be
\* scheduled, no client and no write ever need finish.
Given(c, n) == \E i \in 1 .. Len(Stream(c)) : Stream(c)[i] = n
FairSpec == Spec /\ WF_vars(Pump)
EveryReportHandedOut ==
  \A c \in Cids : \A n \in Reports :
    (c \in serving /\ joined[c] < n /\ n <= emitted)
      ~> (Given(c, n) \/ lost[c] \/ c \notin serving \/ stopping)

\* The hub is a Broadcast to its clients.
Shared == INSTANCE Broadcast WITH
  Clients <- Cids,
  log     <- emitted,
  start   <- [c \in Cids |-> IF phase[c] = "off" THEN -1 ELSE joined[c]],
  seen    <- got,
  lossy   <- lost
SharesOneSession == Shared!Spec
=============================================================================
